---- MODULE Spec2Model ----
(***************************************************************************)
(* Limit order book matching engine (src/simulator) and iceberg strategy   *)
(* (src/client) of the trading-system repository.                          *)
(*                                                                         *)
(* Engine: Order objects live in a heap `orders` (exch_order_id = index);  *)
(* bids and asks are the contents of the two SortedList containers, kept   *)
(* as sequences of order ids.  SortedList.add / discard / remove are       *)
(* modelled by the bisection they perform with Order.__lt__ on the single  *)
(* sub-list a SortedList has below its load factor of 1000 entries.  An    *)
(* Order is mutated in place while it sits in its SortedList, so the       *)
(* bisection sees the keys the orders have at the time of the call.        *)
(*                                                                         *)
(* Client: StrategyManager with the IcebergOrder of                        *)
(* iceberg_order_sample.py.  Requests and responses travel in two FIFO     *)
(* channels; every socket handler, callback and user command is one step.  *)
(*                                                                         *)
(* Spec        the engine alone, requests of positive quantity and price   *)
(* SpecAny     the engine alone, create requests of any quantity           *)
(* SpecClient  the iceberg client, the engine and another client's orders; *)
(*             callbacks run one at a time in the order of emission        *)
(* SpecScenario the engine alone, create requests with the quantities and  *)
(*             prices of the worked example of the matching rules          *)
(* SpecMatching the engine alone, create requests on concurrent workers,    *)
(*             every iteration of the matching loop in two steps           *)
(* SpecWorkers the engine alone, every request on a transport worker of   *)
(*             its own: a worker can be suspended between the matching     *)
(*             loop and the update of the book                             *)
(* SpecThreads the same system with every callback on a thread of its own: *)
(*             callbacks start in any order, and a callback can be         *)
(*             suspended wherever it does not hold the manager's lock      *)
(***************************************************************************)
EXTENDS Integers, Sequences, FiniteSets, TLC

\* ------------------------------------------------------------------ bounds
\* number of requests the engine handles in one run
MaxRequests == 4
\* the same when the quantity of a create request is unrestricted
MaxRequestsAny == 3
\* number of orders other clients place while the iceberg client runs
MaxEnvOrders == 3
\* number of revise / cancel commands the user gives
MaxCommands == 2
\* number of create requests of the worked example of the matching rules
MaxScenarioRequests == 3
\* number of create requests whose matching loops run on concurrent workers
MaxMatchingRequests == 3
\* number of requests the engine handles on concurrent workers
MaxWorkerRequests == 3
\* number of orders other clients place while the callbacks run on threads
MaxThreadEnvOrders == 2
\* number of user commands given while the manager lock is followed
MaxLockCommands == 1
\* number of handler threads that run at the same time
MaxLockThreads == 2

\* ------------------------------------------------------------ input values
Sides == {"buy", "sell"}
\* quantity of a create request
Quantities == {1, 2}
\* limit_price of a create request
Prices == {1, 2}
\* revised_quantity / revised_price of a revise request, 0 = absent (None)
RevisedQuantities == {0, 1, 2}
RevisedPrices == {0, 1, 2}
\* quantity of a create request when nothing restricts it
AnyQuantities == {0, 2, 3}
\* client_id of the iceberg client and of another client of the exchange
Iceberg == "iceberg"
Trader == "trader"
\* the parent order of the iceberg client
IcebergSide == "buy"
IcebergPrices == {1}
IcebergQuantities == {3, 4}
SliceSizes == {2, 4}
IcebergRevisedQuantities == {3, 4}
\* the orders of the other client that the slices trade against
\* quantities and prices of the worked example: asks 10@101 and 5@102, an
\* incoming buy 12@102
ScenarioQuantities == {5, 10, 12}
ScenarioPrices == {101, 102}
\* the parent orders followed while the callbacks run on threads
ThreadIcebergQuantities == {4}
TraderSide == "sell"
TraderQuantities == {1, 2}

VARIABLES
    orders,            \* heap of engine Order objects, indexed by exch_order_id
    bids,              \* order_book_dict["bids"]  (SortedList content)
    asks,              \* order_book_dict["asks"]  (SortedList content)
    completed_orders,  \* keys of order_book_dict["completed_orders"]
    clock,             \* next value returned by time.time()
    responses,         \* responses returned by the last request
    matches,           \* history: the matching events of the last request
    created,           \* history: the quantity each order was created with
    last,              \* the last request handled by the engine
    parents,           \* StrategyManager.orders, each with its IcebergOrder
    toExch,            \* requests emitted by the client, not yet handled
    toClient,          \* responses emitted to the client, not yet delivered
    sent,              \* number of client_msg_id values drawn so far
    commands,          \* number of revise / cancel commands of the user
    running,           \* callback threads that are inside their handler
    deltas,            \* history: sum of the deltas slice_fill returned
    inflight           \* engine requests that have matched, book not updated

vars == <<orders, bids, asks, completed_orders, clock, responses, matches,
          created, last, parents, toExch, toClient, sent, commands, running,
          deltas, inflight>>

\* ------------------------------------------------------------ sequences
RemoveAt(s, i) == SubSeq(s, 1, i - 1) \o SubSeq(s, i + 1, Len(s))

InsertAt(s, i, e) == SubSeq(s, 1, i - 1) \o <<e>> \o SubSeq(s, i, Len(s))

Count(s, e) == Cardinality({i \in 1..Len(s) : s[i] = e})

Range(s) == {s[i] : i \in 1..Len(s)}

\* ------------------------------------------------------------ Order entity
NoTrade == [quantity |-> 0, limit_price |-> 0, exch_order_id |-> 0,
            trade_id |-> 0, fill_type |-> "none", side |-> "none"]

\* Order.__init__
NewOrder(side, quantity, limit_price, client_id, now) ==
    [side |-> side, limit_price |-> limit_price, quantity |-> quantity,
     filled_quantity |-> 0, status |-> "ack", timestamp |-> now,
     client_id |-> client_id, trades |-> <<>>]

\* Order.open_quantity
open_quantity(o) == o.quantity - o.filled_quantity

\* Order.__lt__ : side-aware price comparison, then timestamp
Lt(a, b) ==
    IF a.side = "buy" /\ a.limit_price > b.limit_price THEN TRUE
    ELSE IF a.side = "sell" /\ a.limit_price < b.limit_price THEN TRUE
    ELSE IF a.limit_price = b.limit_price THEN a.timestamp < b.timestamp
    ELSE FALSE

\* a fill that never completes an order
OrderFillPartial(o, id, quantity, price, trade_id) ==
    IF quantity > open_quantity(o)
    THEN [ok |-> FALSE, order |-> o, trade |-> NoTrade]
    ELSE LET trade == [quantity |-> quantity, limit_price |-> price,
                       exch_order_id |-> id, trade_id |-> trade_id,
                       fill_type |-> "Partial Fill", side |-> o.side]
         IN [ok |-> TRUE,
             order |-> [o EXCEPT !.filled_quantity = @ + quantity,
                                 !.status = "partially_filled",
                                 !.trades = Append(@, trade)],
             trade |-> trade]

\* Order.fill : ok = FALSE is the ValueError
OrderFill(o, id, quantity, price, trade_id) ==
    IF quantity > open_quantity(o)
    THEN [ok |-> FALSE, order |-> o, trade |-> NoTrade]
    ELSE LET filled == o.filled_quantity + quantity
             complete == (o.quantity - filled = 0)
             trade == [quantity |-> quantity, limit_price |-> price,
                       exch_order_id |-> id, trade_id |-> trade_id,
                       fill_type |-> IF complete THEN "Complete Fill"
                                                 ELSE "Partial Fill",
                       side |-> o.side]
         IN [ok |-> TRUE,
             order |-> [o EXCEPT !.filled_quantity = filled,
                                 !.status = IF complete THEN "filled"
                                            ELSE "partially_filled",
                                 !.trades = Append(@, trade)],
             trade |-> trade]

\* a revise that accepts a quantity below the filled quantity
OrderReviseUnchecked(o, revised_qty, revised_price, now) ==
    LET o1 == IF revised_qty # 0 THEN [o EXCEPT !.quantity = revised_qty]
              ELSE o
        o2 == IF open_quantity(o1) = 0 THEN [o1 EXCEPT !.status = "filled"]
              ELSE o1
    IN IF revised_price # 0 /\ o2.status = "filled"
       THEN [order |-> o2, status |-> FALSE]
       ELSE [order |-> [o2 EXCEPT
                          !.limit_price = IF revised_price # 0
                                          THEN revised_price ELSE @,
                          !.timestamp = now],
             status |-> TRUE]

\* Order.revise : a revised_qty / revised_price of 0 is Python's falsy value,
\* the same branch as None
OrderRevise(o, revised_qty, revised_price, now) ==
    IF revised_qty # 0 /\ o.filled_quantity > revised_qty
    THEN [order |-> o, status |-> FALSE]
    ELSE LET o1 == IF revised_qty # 0 THEN [o EXCEPT !.quantity = revised_qty]
                   ELSE o
             o2 == IF open_quantity(o1) = 0 THEN [o1 EXCEPT !.status = "filled"]
                   ELSE o1
         IN IF revised_price # 0 /\ o2.status = "filled"
            THEN [order |-> o2, status |-> FALSE]
            ELSE [order |-> [o2 EXCEPT
                               !.limit_price = IF revised_price # 0
                                               THEN revised_price ELSE @,
                               !.timestamp = now],
                  status |-> TRUE]

\* Order.cancel
OrderCancel(o) ==
    IF o.status = "filled" THEN [order |-> o, status |-> FALSE]
    ELSE [order |-> [o EXCEPT !.status = "cancelled"], status |-> TRUE]

\* ------------------------------------------------------------ SortedList
\* bisect.bisect_left(l, x, lo, hi) with 0-based lo, hi
RECURSIVE BisectLeft(_, _, _, _, _)
BisectLeft(os, l, x, lo, hi) ==
    IF lo < hi
    THEN LET mid == (lo + hi) \div 2
         IN IF Lt(os[l[mid + 1]], os[x])
            THEN BisectLeft(os, l, x, mid + 1, hi)
            ELSE BisectLeft(os, l, x, lo, mid)
    ELSE lo

\* bisect.bisect_right(l, x, lo, hi) with 0-based lo, hi
RECURSIVE BisectRight(_, _, _, _, _)
BisectRight(os, l, x, lo, hi) ==
    IF lo < hi
    THEN LET mid == (lo + hi) \div 2
         IN IF Lt(os[x], os[l[mid + 1]])
            THEN BisectRight(os, l, x, lo, mid)
            ELSE BisectRight(os, l, x, mid + 1, hi)
    ELSE lo

\* SortedList.remove : ok = FALSE is the ValueError "not in list"
SLRemove(os, l, x) ==
    IF l = <<>> THEN [ok |-> FALSE, list |-> l]
    ELSE IF Lt(os[l[Len(l)]], os[x]) THEN [ok |-> FALSE, list |-> l]
    ELSE LET idx == BisectLeft(os, l, x, 0, Len(l))
         IN IF l[idx + 1] = x
            THEN [ok |-> TRUE, list |-> RemoveAt(l, idx + 1)]
            ELSE [ok |-> FALSE, list |-> l]

\* SortedList.discard : as remove, silently
SLDiscard(os, l, x) == SLRemove(os, l, x).list

\* SortedList.add
SLAdd(os, l, x) ==
    IF l = <<>> THEN <<x>>
    ELSE IF ~Lt(os[x], os[l[Len(l)]]) THEN Append(l, x)
    ELSE InsertAt(l, BisectRight(os, l, x, 0, Len(l)) + 1, x)

\* ------------------------------------------------------------ responses
\* OrderResponse; exch_order_id = 0 stands for order_params = None.  `copied`
\* marks a deep copy (a snapshot); the other responses hold a reference to
\* the order's parameters and are serialised after the request returned.
OrderResp(client_msg_id, client_id, id, o, status, copied) ==
    [name |-> "OrderResponse", client_msg_id |-> client_msg_id,
     client_id |-> client_id, status |-> status, exch_order_id |-> id,
     quantity |-> o.quantity, filled_quantity |-> o.filled_quantity,
     limit_price |-> o.limit_price, ostatus |-> o.status, side |-> o.side,
     trade |-> NoTrade, copied |-> copied]

\* the except ValueError branch of revise_order_request / cancel_order_request
ErrorResp(client_msg_id, client_id) ==
    [name |-> "OrderResponse", client_msg_id |-> client_msg_id,
     client_id |-> client_id, status |-> FALSE, exch_order_id |-> 0,
     quantity |-> 0, filled_quantity |-> 0, limit_price |-> 0,
     ostatus |-> "none", side |-> "none", trade |-> NoTrade, copied |-> TRUE]

\* FillOrderResponse returned by Order.fill
FillResp(id, o, trade, copied) ==
    [name |-> "FillOrderResponse", client_msg_id |-> 0,
     client_id |-> o.client_id, status |-> TRUE, exch_order_id |-> id,
     quantity |-> o.quantity, filled_quantity |-> o.filled_quantity,
     limit_price |-> o.limit_price, ostatus |-> o.status, side |-> o.side,
     trade |-> trade, copied |-> copied]

\* to_json at emission: a response that was not deep-copied shows the order
\* as it is when the request has returned
Emitted(resps, os) ==
    [i \in 1..Len(resps) |->
        IF resps[i].copied THEN resps[i]
        ELSE LET o == os[resps[i].exch_order_id]
             IN [resps[i] EXCEPT !.quantity = o.quantity,
                                 !.filled_quantity = o.filled_quantity,
                                 !.limit_price = o.limit_price,
                                 !.ostatus = o.status]]

\* ------------------------------------------------------------ OrderBook
\* OrderBook._quotes_list / _cross_quote_list select a side of the book
QuotesList(bk, o) == IF o.side = "buy" THEN bk.bids ELSE bk.asks

CrossQuoteList(bk, o) == IF o.side = "buy" THEN bk.asks ELSE bk.bids

SetQuotes(bk, o, l) ==
    IF o.side = "buy" THEN [bk EXCEPT !.bids = l] ELSE [bk EXCEPT !.asks = l]

SetCross(bk, o, l) ==
    IF o.side = "buy" THEN [bk EXCEPT !.asks = l] ELSE [bk EXCEPT !.bids = l]

\* first loop of _update_order_book: cross_quotes.remove(q) for every
\* completed cross quote, then completed_orders[q] = q; a failing remove
\* raises and leaves the rest undone (bk.raised)
RECURSIVE RemoveCompleted(_, _, _, _, _)
RemoveCompleted(os, bk, x, done, i) ==
    IF i > Len(done) THEN bk
    ELSE LET r == SLRemove(os, CrossQuoteList(bk, os[x]), done[i])
         IN IF ~r.ok THEN [bk EXCEPT !.raised = TRUE]
            ELSE RemoveCompleted(os,
                     [SetCross(bk, os[x], r.list) EXCEPT
                         !.completed = @ \cup {done[i]}],
                     x, done, i + 1)

\* second part of _update_order_book: file the order itself
FileOrder(os, bk, x) ==
    LET o == os[x]
        discarded == SLDiscard(os, QuotesList(bk, o), x)
    IN IF o.status = "filled" \/ o.status = "cancelled"
       THEN [SetQuotes(bk, o, discarded) EXCEPT !.completed = @ \cup {x}]
       ELSE SetQuotes(bk, o, SLAdd(os, discarded, x))

\* OrderBook._update_order_book(order, completed_cross_quotes, cross_quotes)
UpdateOrderBook(os, bk, x, done) ==
    LET b1 == RemoveCompleted(os, bk, x, done, 1)
    IN IF b1.raised THEN b1 ELSE FileOrder(os, b1, x)

\* a fill quantity that is always the incoming order's open quantity
FillQtyOfOrder(order, quote) == open_quantity(order)

\* fill_qty of _evaluate_order_match
FillQty(order, quote) ==
    IF open_quantity(quote) >= open_quantity(order)
    THEN open_quantity(order)
    ELSE open_quantity(quote)

\* a trade at the resting order's price
TradePriceOfQuote(order, quote) == quote.limit_price

\* trade_price of _evaluate_order_match
TradePrice(order, quote) == order.limit_price

\* price_matched of _evaluate_order_match
PriceMatched(order, quote) ==
    IF order.side = "sell" THEN quote.limit_price >= order.limit_price
    ELSE quote.limit_price <= order.limit_price

\* one iteration of the loop of _evaluate_order_match and the rest of the
\* loop; m = [os, resps, done, clk, matches]
RECURSIVE MatchLoop(_, _, _, _)
MatchLoop(m, x, cross, i) ==
    IF i > Len(cross) \/ m.os[x].status = "filled" THEN m
    ELSE LET q == cross[i]
             order == m.os[x]
             quote == m.os[q]
         IN IF ~PriceMatched(order, quote) THEN m
            ELSE LET fill_qty == FillQty(order, quote)
                     trade_id == m.clk
                     trade_price == TradePrice(order, quote)
                     f1 == OrderFill(order, x, fill_qty, trade_price, trade_id)
                     f2 == OrderFill(quote, q, fill_qty, trade_price, trade_id)
                     os1 == IF f1.ok THEN [m.os EXCEPT ![x] = f1.order]
                            ELSE m.os
                     os2 == IF f1.ok /\ f2.ok THEN [os1 EXCEPT ![q] = f2.order]
                            ELSE os1
                     r1 == IF f1.ok
                           THEN Append(m.resps,
                                       FillResp(x, f1.order, f1.trade, TRUE))
                           ELSE m.resps
                     r2 == IF f1.ok /\ f2.ok
                           THEN Append(r1, FillResp(q, f2.order, f2.trade, FALSE))
                           ELSE r1
                     done == IF os2[q].status = "filled" THEN Append(m.done, q)
                             ELSE m.done
                     ev == [order |-> x, quote |-> q,
                            order_open |-> open_quantity(order),
                            quote_open |-> open_quantity(quote),
                            order_price |-> order.limit_price]
                 IN MatchLoop([os |-> os2, resps |-> r2, done |-> done,
                               clk |-> m.clk + 1,
                               matches |-> Append(m.matches, ev)],
                              x, cross, i + 1)

\* OrderBook._evaluate_order_match(order): returns the heap, the book, the
\* fill responses and the clock; book.raised = the ValueError escaped
MatchResult(m, bk, x) ==
    [os |-> m.os, book |-> UpdateOrderBook(m.os, bk, x, m.done),
     resps |-> m.resps, clk |-> m.clk, matches |-> m.matches]

EvaluateOrderMatch(os, bk, x, clk) ==
    MatchResult(MatchLoop([os |-> os, resps |-> <<>>, done |-> <<>>,
                           clk |-> clk, matches |-> <<>>],
                          x, CrossQuoteList(bk, os[x]), 1),
                bk, x)

\* OrderBook._get_order: first order of asks then bids with that id
GetOrder(id) == IF id \in Range(asks) \cup Range(bids) THEN id ELSE 0

\* a validation that accepts every order that was ever created
ValidatedOrderAny(id) == IF id \in 1..Len(orders) THEN id ELSE 0

\* OrderBook._validated_order: 0 = the ValueError
ValidatedOrder(id) == IF id \in completed_orders THEN 0 ELSE GetOrder(id)

Book == [bids |-> bids, asks |-> asks, completed |-> completed_orders,
         raised |-> FALSE]

\* ------------------------------------------------------------ market depth
\* OrderBook._build_market_depth over the orders l of one side, in the order
\* the side holds them: an order at the price of the last row adds its open
\* quantity to that row, any other order opens a row
RECURSIVE BuildMarketDepth(_, _)
BuildMarketDepth(l, market_depth) ==
    IF l = <<>> THEN market_depth
    ELSE LET order == orders[Head(l)]
             n == Len(market_depth)
         IN IF n > 0 /\ order.limit_price = market_depth[n].price
            THEN BuildMarketDepth(
                     Tail(l),
                     [market_depth EXCEPT
                         ![n].volume = @ + open_quantity(order)])
            ELSE BuildMarketDepth(
                     Tail(l),
                     Append(market_depth,
                            [price |-> order.limit_price,
                             volume |-> open_quantity(order)]))

\* OrderBook.get_market_depth: the rows of the two sides zipped by rank
\* (zip_longest); <<>> is the empty string of a side without a row at the
\* rank, <<price, volume>> a row
GetMarketDepth ==
    LET bid_market_depth == BuildMarketDepth(bids, <<>>)
        ask_market_depth == BuildMarketDepth(asks, <<>>)
        n == IF Len(bid_market_depth) >= Len(ask_market_depth)
             THEN Len(bid_market_depth) ELSE Len(ask_market_depth)
        Row(d, i) == IF i <= Len(d) THEN <<d[i].price, d[i].volume>> ELSE <<>>
    IN [i \in 1..n |-> [bid |-> Row(bid_market_depth, i),
                         ask |-> Row(ask_market_depth, i)]]

\* ------------------------------------------------------------ requests
\* handle_create -> OrderBook.create_order_request
CreateOrderRequest(side, client_msg_id, client_id, quantity, limit_price) ==
    /\ UNCHANGED inflight
    /\ LET x == Len(orders) + 1
           os == Append(orders, NewOrder(side, quantity, limit_price,
                                         client_id, clock))
           ack == OrderResp(client_msg_id, client_id, x, os[x], TRUE, TRUE)
       IN \E r \in {EvaluateOrderMatch(os, Book, x, clock + 1)} :
          /\ created' = Append(created, quantity)
          /\ orders' = r.os
          /\ bids' = r.book.bids
          /\ asks' = r.book.asks
          /\ completed_orders' = r.book.completed
          /\ clock' = r.clk
          /\ matches' = r.matches
          /\ responses' = IF r.book.raised THEN <<>>
                          ELSE Emitted(<<ack>> \o r.resps, r.os)
          /\ last' = [op |-> "create", id |-> x, ok |-> TRUE,
                      raised |-> r.book.raised, n |-> last.n + 1]

\* handle_revise -> OrderBook.revise_order_request
ReviseOrderRequest(client_msg_id, client_id, order_id, revised_quantity, revised_price) ==
    /\ UNCHANGED inflight
    /\ LET x == ValidatedOrder(order_id)
       IN IF x = 0
          THEN /\ responses' = <<ErrorResp(client_msg_id, client_id)>>
               /\ last' = [op |-> "revise", id |-> order_id, ok |-> FALSE,
                           raised |-> FALSE, n |-> last.n + 1]
               /\ matches' = <<>>
               /\ UNCHANGED <<orders, bids, asks, completed_orders, clock,
                              created>>
          ELSE LET rv == OrderRevise(orders[x], revised_quantity,
                                     revised_price, clock)
                   os == [orders EXCEPT ![x] = rv.order]
                   clk == IF rv.status THEN clock + 1 ELSE clock
                   revise_resp == OrderResp(client_msg_id, client_id, x,
                                            rv.order, rv.status, FALSE)
               IN \E r \in {EvaluateOrderMatch(os, Book, x, clk)} :
                  /\ orders' = r.os
                  /\ bids' = r.book.bids
                  /\ asks' = r.book.asks
                  /\ completed_orders' = r.book.completed
                  /\ clock' = r.clk
                  /\ matches' = r.matches
                  /\ UNCHANGED created
                  /\ responses' = IF r.book.raised
                                  THEN <<ErrorResp(client_msg_id, client_id)>>
                                  ELSE Emitted(<<revise_resp>> \o r.resps, r.os)
                  /\ last' = [op |-> "revise", id |-> order_id,
                              ok |-> rv.status /\ ~r.book.raised,
                              raised |-> r.book.raised, n |-> last.n + 1]

\* handle_cancel -> OrderBook.cancel_order_request
CancelOrderRequest(client_msg_id, client_id, order_id) ==
    /\ UNCHANGED inflight
    /\ LET x == ValidatedOrder(order_id)
       IN IF x = 0
          THEN /\ responses' = <<ErrorResp(client_msg_id, client_id)>>
               /\ last' = [op |-> "cancel", id |-> order_id, ok |-> FALSE,
                           raised |-> FALSE, n |-> last.n + 1]
               /\ matches' = <<>>
               /\ UNCHANGED <<orders, bids, asks, completed_orders, clock,
                              created>>
          ELSE LET c == OrderCancel(orders[x])
                   os == [orders EXCEPT ![x] = c.order]
                   bk == UpdateOrderBook(os, Book, x, <<>>)
               IN /\ orders' = os
                  /\ bids' = bk.bids
                  /\ asks' = bk.asks
                  /\ completed_orders' = bk.completed
                  /\ responses' = Emitted(<<OrderResp(client_msg_id, client_id,
                                                       x, c.order, c.status,
                                                       FALSE)>>, os)
                  /\ last' = [op |-> "cancel", id |-> order_id,
                              ok |-> c.status, raised |-> FALSE,
                              n |-> last.n + 1]
                  /\ matches' = <<>>
                  /\ UNCHANGED <<clock, created>>

\* ============================================================ client side
\* IcebergOrder.__init__ (slice_order_id / slice_message_id 0 = None)
NewIceberg(total_quantity, slice_size, side, limit_price) ==
    [total_quantity |-> total_quantity, side |-> side,
     limit_price |-> limit_price, filled_quantity |-> 0,
     slice_size |-> slice_size, slice_filled_quantity |-> 0,
     slice_message_id |-> 0, slice_order_id |-> 0,
     last_slice_state |-> "Pending", parent_state |-> "Pending"]

\* every state of globals.State
EveryState ==
    {"Pending", "Sent", "Working", "PartiallyFilled", "Filled", "ReviseSent",
     "CancelSent", "Cancelled", "Rejected"}

\* globals.ACTIVE_STATES
ACTIVE_STATES == {"Pending", "Working", "PartiallyFilled"}

\* globals.COMPLETED_STATES
COMPLETED_STATES == {"Rejected", "Cancelled", "Filled"}

\* ExchangeClient.send_create_order_request: the wire message
CreateRequest(mid, quantity, limit_price, side) ==
    [type |-> "create", client_msg_id |-> mid, order_id |-> 0,
     quantity |-> quantity, limit_price |-> limit_price, side |-> side]

\* ExchangeClient.send_revise_order_request
ReviseRequest(mid, order_id, revised_qty, revised_price) ==
    [type |-> "revise", client_msg_id |-> mid, order_id |-> order_id,
     quantity |-> revised_qty, limit_price |-> revised_price, side |-> "none"]

\* ExchangeClient.send_cancel_order_request
CancelRequest(mid, order_id) ==
    [type |-> "cancel", client_msg_id |-> mid, order_id |-> order_id,
     quantity |-> 0, limit_price |-> 0, side |-> "none"]

\* The strategy operations return the strategy after the call, the requests
\* it sent (out) and, for slice_fill, the returned delta; mid is the
\* client_msg_id the next request sent will carry.

\* IcebergOrder.submit
Submit(s, mid) ==
    [s |-> [s EXCEPT !.slice_filled_quantity = 0,
                     !.slice_order_id = 0,
                     !.slice_message_id = mid,
                     !.last_slice_state = "Sent",
                     !.parent_state = IF @ # "PartiallyFilled" THEN "Sent"
                                      ELSE @],
     out |-> <<CreateRequest(mid, s.slice_size, s.limit_price, s.side)>>,
     delta |-> 0]

\* the state recomputation of evaluate_and_slice
Evaluated(s) ==
    [s EXCEPT
       !.last_slice_state =
           IF s.slice_filled_quantity = s.slice_size THEN "Filled"
           ELSE IF s.slice_filled_quantity > 0 THEN "PartiallyFilled"
           ELSE "Working",
       !.parent_state =
           IF s.filled_quantity = s.total_quantity THEN "Filled"
           ELSE IF s.filled_quantity > 0 THEN "PartiallyFilled"
           ELSE "Working"]

\* a strategy that releases a slice at every evaluation
SliceMoreAlways(s) == TRUE

\* the condition under which evaluate_and_slice releases the next slice
SliceMore(s) ==
    s.last_slice_state = "Filled" /\ s.filled_quantity < s.total_quantity

\* IcebergOrder.evaluate_and_slice
EvaluateAndSlice(s, mid) ==
    IF SliceMore(Evaluated(s)) THEN Submit(Evaluated(s), mid)
    ELSE [s |-> Evaluated(s), out |-> <<>>, delta |-> 0]

\* IcebergOrder.slice_created
SliceCreated(s, order_id, status) ==
    IF ~status
    THEN [s EXCEPT !.last_slice_state = "Rejected",
                   !.parent_state = "Rejected"]
    ELSE [s EXCEPT !.slice_order_id = order_id,
                   !.last_slice_state = "Working",
                   !.parent_state = "Working"]

\* IcebergOrder.slice_fill
SliceFill(s, filled_quantity, status, mid) ==
    IF ~status THEN [s |-> s, out |-> <<>>, delta |-> 0]
    ELSE LET new_filled_quantity == filled_quantity - s.slice_filled_quantity
             s1 == [s EXCEPT !.slice_filled_quantity = filled_quantity,
                             !.filled_quantity = @ + new_filled_quantity]
         IN [EvaluateAndSlice(s1, mid) EXCEPT !.delta = new_filled_quantity]

\* a strategy that sends a revise for every accepted revise
StrategyReviseResends(s, revised_quantity, revised_price, mid) ==
    IF \/ s.parent_state \notin ACTIVE_STATES
       \/ s.slice_order_id = 0
       \/ revised_quantity <= s.filled_quantity
    THEN [s |-> s, out |-> <<>>, delta |-> 0]
    ELSE [s |-> [s EXCEPT !.last_slice_state = "ReviseSent",
                          !.parent_state = "ReviseSent"],
          out |-> <<ReviseRequest(mid, s.slice_order_id, s.slice_size,
                                  revised_price)>>,
          delta |-> 0]

\* IcebergOrder.revise
StrategyRevise(s, revised_quantity, revised_price, mid) ==
    IF s.parent_state \notin ACTIVE_STATES \/ s.slice_order_id = 0
    THEN [s |-> s, out |-> <<>>, delta |-> 0]
    ELSE IF revised_quantity <= s.filled_quantity
    THEN [s |-> s, out |-> <<>>, delta |-> 0]
    ELSE LET revised_open_quantity == revised_quantity - s.filled_quantity
             slice_open_quantity == s.slice_size - s.slice_filled_quantity
         IN IF revised_open_quantity = 0
            THEN [s |-> [s EXCEPT !.last_slice_state = "CancelSent",
                                  !.parent_state = "CancelSent"],
                  out |-> <<CancelRequest(mid, s.slice_order_id)>>,
                  delta |-> 0]
            ELSE IF slice_open_quantity > revised_open_quantity
            THEN [s |-> [s EXCEPT !.last_slice_state = "ReviseSent",
                                  !.parent_state = "ReviseSent"],
                  out |-> <<ReviseRequest(mid, s.slice_order_id,
                                          slice_open_quantity, revised_price)>>,
                  delta |-> 0]
            ELSE IF s.limit_price # revised_price
            THEN [s |-> [s EXCEPT !.last_slice_state = "ReviseSent",
                                  !.parent_state = "ReviseSent"],
                  out |-> <<ReviseRequest(mid, s.slice_order_id, s.slice_size,
                                          revised_price)>>,
                  delta |-> 0]
            ELSE [s |-> [s EXCEPT !.total_quantity = revised_quantity,
                                  !.limit_price = revised_price],
                  out |-> <<>>, delta |-> 0]

\* a strategy that takes every revise ack, awaited or not
RevisedAlways(s, revised_quantity, revised_price, status, mid) ==
    IF ~status
    THEN [s |-> [s EXCEPT !.last_slice_state = "Working",
                          !.parent_state = "Working"],
          out |-> <<>>, delta |-> 0]
    ELSE EvaluateAndSlice([s EXCEPT !.slice_size = revised_quantity,
                                    !.limit_price = revised_price], mid)

\* IcebergOrder.revised
Revised(s, revised_quantity, revised_price, status, mid) ==
    IF s.last_slice_state # "ReviseSent"
    THEN [s |-> s, out |-> <<>>, delta |-> 0]
    ELSE IF ~status
    THEN [s |-> [s EXCEPT !.last_slice_state = "Working",
                          !.parent_state = "Working"],
          out |-> <<>>, delta |-> 0]
    ELSE EvaluateAndSlice([s EXCEPT !.slice_size = revised_quantity,
                                    !.limit_price = revised_price], mid)

\* IcebergOrder.cancel
StrategyCancel(s, mid) ==
    IF s.last_slice_state \notin ACTIVE_STATES \/ s.slice_order_id = 0
    THEN [s |-> s, out |-> <<>>, delta |-> 0]
    ELSE [s |-> [s EXCEPT !.last_slice_state = "CancelSent",
                          !.parent_state = "CancelSent"],
          out |-> <<CancelRequest(mid, s.slice_order_id)>>, delta |-> 0]

\* IcebergOrder.cancelled
Cancelled(s, status) ==
    IF s.last_slice_state # "CancelSent" THEN s
    ELSE IF ~status
    THEN [s EXCEPT !.last_slice_state = "Working", !.parent_state = "Working"]
    ELSE [s EXCEPT !.last_slice_state = "Cancelled",
                   !.parent_state = "Cancelled"]

\* ------------------------------------------------------------ StrategyManager
\* StrategyManager.get_iceberg_order_parent (0 = None); self.orders is
\* iterated in insertion order
GetIcebergOrderParent(order_id, message_id) ==
    LET found == {p \in 1..Len(parents) :
                    \/ parents[p].iceberg_order.slice_order_id = order_id
                    \/ /\ message_id # 0
                       /\ parents[p].iceberg_order.slice_message_id
                              = message_id}
    IN IF found = {} THEN 0
       ELSE CHOOSE p \in found : \A q \in found : p <= q

\* a callback that returns early or dies before it changes anything
NoEffect == [parents |-> parents, out |-> <<>>]

\* StrategyManager.on_fill_resp
OnFillResp(data) ==
    LET p == GetIcebergOrderParent(data.exch_order_id, 0)
    IN IF p = 0 THEN NoEffect
       ELSE LET r == SliceFill(parents[p].iceberg_order, data.filled_quantity,
                               data.status, sent + 1)
            IN [parents |-> [parents EXCEPT
                                ![p].iceberg_order = r.s,
                                ![p].filled_quantity = @ + r.delta,
                                ![p].state = r.s.parent_state],
                out |-> r.out, delta |-> r.delta]

\* StrategyManager.on_create_resp
OnCreateResp(data) ==
    LET p == GetIcebergOrderParent(data.exch_order_id, data.client_msg_id)
    IN IF p = 0 THEN NoEffect
       ELSE IF data.name = "FillOrderResponse" THEN OnFillResp(data)
       ELSE LET s == SliceCreated(parents[p].iceberg_order,
                                  data.exch_order_id, data.status)
            IN [parents |-> [parents EXCEPT ![p].iceberg_order = s,
                                            ![p].state = s.parent_state],
                out |-> <<>>]

\* StrategyManager.on_revise_resp
OnReviseResp(data) ==
    IF data.name = "FillOrderResponse" THEN OnFillResp(data)
    ELSE IF ~data.status THEN NoEffect
    ELSE LET p == GetIcebergOrderParent(data.exch_order_id,
                                        data.client_msg_id)
         IN IF p = 0 THEN NoEffect
            ELSE LET r == Revised(parents[p].iceberg_order, data.quantity,
                                  data.limit_price, data.status, sent + 1)
                 IN [parents |-> [parents EXCEPT
                                     ![p].iceberg_order = r.s,
                                     ![p].state = r.s.parent_state],
                     out |-> r.out]

\* StrategyManager.on_cancel_resp; data["order_params"] is None in an error
\* response and subscripting it raises before anything is changed
OnCancelResp(data) ==
    IF data.exch_order_id = 0 THEN NoEffect
    ELSE LET p == GetIcebergOrderParent(data.exch_order_id,
                                        data.client_msg_id)
         IN IF p = 0 THEN NoEffect
            ELSE LET s == Cancelled(parents[p].iceberg_order, data.status)
                 IN [parents |-> [parents EXCEPT ![p].iceberg_order = s,
                                                 ![p].state = s.parent_state],
                     out |-> <<>>]

\* StrategyManager.create_iceberg
CreateIcebergOrder(side, quantity, limit_price, slice_size) ==
    LET r == Submit(NewIceberg(quantity, slice_size, side, limit_price),
                    sent + 1)
    IN [parents |-> Append(parents,
                           [side |-> side, quantity |-> quantity,
                            filled_quantity |-> 0,
                            limit_price |-> limit_price, state |-> "Sent",
                            iceberg_order |-> r.s]),
        out |-> r.out]

\* StrategyManager.revise
ManagerRevise(p, revised_quantity, revised_limit_price) ==
    LET r == StrategyRevise(parents[p].iceberg_order, revised_quantity,
                            revised_limit_price, sent + 1)
    IN [parents |-> [parents EXCEPT
                        ![p].iceberg_order = r.s,
                        ![p].quantity = revised_quantity,
                        ![p].limit_price = revised_limit_price,
                        ![p].state = r.s.parent_state],
        out |-> r.out]

\* StrategyManager.cancel
ManagerCancel(p) ==
    LET r == StrategyCancel(parents[p].iceberg_order, sent + 1)
    IN [parents |-> [parents EXCEPT ![p].iceberg_order = r.s,
                                    ![p].state = r.s.parent_state],
        out |-> r.out]

\* ============================================================ system
engineVars == <<orders, bids, asks, completed_orders, clock, responses,
                matches, created, last, inflight>>

clientVars == <<parents, toExch, toClient, sent, commands, running, deltas>>

\* OrderBook.__init__ and StrategyManager.__init__: an empty book, no parent
\* order, nothing in flight
Init ==
    /\ orders = <<>>
    /\ bids = <<>>
    /\ asks = <<>>
    /\ completed_orders = {}
    /\ clock = 1
    /\ responses = <<>>
    /\ matches = <<>>
    /\ created = <<>>
    /\ last = [op |-> "none", id |-> 0, ok |-> TRUE, raised |-> FALSE, n |-> 0]
    /\ parents = <<>>
    /\ toExch = <<>>
    /\ toClient = <<>>
    /\ sent = 0
    /\ commands = 0
    /\ running = <<>>
    /\ deltas = 0
    /\ inflight = <<>>

\* ------------------------------------------------------------ engine alone
\* requests of well-formed orders (positive quantity and price) made
\* directly to the engine
\* the order_id of a revise or cancel request: the id of an order that was
\* created, or an id the engine never gave out
RequestedIds == 1..(Len(orders) + 1)

Create ==
    /\ last.n < MaxRequests
    /\ \E s \in Sides, q \in Quantities, p \in Prices :
          CreateOrderRequest(s, last.n + 1, Trader, q, p)
    /\ UNCHANGED clientVars

Revise ==
    /\ last.n < MaxRequests
    /\ \E id \in RequestedIds, q \in RevisedQuantities,
          p \in RevisedPrices :
          ReviseOrderRequest(last.n + 1, Trader, id, q, p)
    /\ UNCHANGED clientVars

Cancel ==
    /\ last.n < MaxRequests
    /\ \E id \in RequestedIds :
          CancelOrderRequest(last.n + 1, Trader, id)
    /\ UNCHANGED clientVars

Next == Create \/ Revise \/ Cancel

Spec == Init /\ [][Next]_vars

\* ------------------------------------------------------------ any request
\* the same requests with any quantity the wire format admits, 0 included
CreateAny ==
    /\ last.n < MaxRequestsAny
    /\ \E s \in Sides, q \in AnyQuantities, p \in Prices :
          CreateOrderRequest(s, last.n + 1, Trader, q, p)
    /\ UNCHANGED clientVars

ReviseAny ==
    /\ last.n < MaxRequestsAny
    /\ \E id \in 1..Len(orders), q \in RevisedQuantities,
          p \in RevisedPrices :
          ReviseOrderRequest(last.n + 1, Trader, id, q, p)
    /\ UNCHANGED clientVars

CancelAny ==
    /\ last.n < MaxRequestsAny
    /\ \E id \in 1..Len(orders) :
          CancelOrderRequest(last.n + 1, Trader, id)
    /\ UNCHANGED clientVars

NextAny == CreateAny \/ ReviseAny \/ CancelAny

SpecAny == Init /\ [][NextAny]_vars

\* ------------------------------------------------------------ worked example
\* handle_create with the quantities and prices of the worked example
ScenarioCreate ==
    /\ last.n < MaxScenarioRequests
    /\ \E s \in Sides, q \in ScenarioQuantities, p \in ScenarioPrices :
          CreateOrderRequest(s, last.n + 1, Trader, q, p)
    /\ UNCHANGED clientVars

NextScenario == ScenarioCreate

SpecScenario == Init /\ [][NextScenario]_vars

\* ------------------------------------------------------------ engine workers
\* The socket handlers of main.py run on the workers of the transport and
\* the OrderBook takes no lock.  A request of a worker is two steps: the
\* request up to the end of the matching loop of _evaluate_order_match, and
\* its _update_order_book; `inflight` holds the requests between the two.

\* the matching loop of _evaluate_order_match for order x
Matched(os, x, clk) ==
    MatchLoop([os |-> os, resps |-> <<>>, done |-> <<>>, clk |-> clk,
               matches |-> <<>>],
              x, CrossQuoteList(Book, os[x]), 1)

\* handle_create up to the end of the matching loop
WorkerCreate ==
    /\ last.n < MaxWorkerRequests
    /\ \E side \in Sides, quantity \in Quantities, limit_price \in Prices :
          LET x == Len(orders) + 1
              os == Append(orders, NewOrder(side, quantity, limit_price,
                                            Trader, clock))
              ack == OrderResp(last.n + 1, Trader, x, os[x], TRUE, TRUE)
          IN \E m \in {Matched(os, x, clock + 1)} :
                /\ created' = Append(created, quantity)
                /\ orders' = m.os
                /\ clock' = m.clk
                /\ matches' = m.matches
                /\ inflight' = Append(inflight,
                                      [op |-> "create", id |-> x, x |-> x,
                                       done |-> m.done, ok |-> TRUE,
                                       client_msg_id |-> last.n + 1,
                                       resps |-> <<ack>> \o m.resps])
    /\ last' = [last EXCEPT !.n = @ + 1]
    /\ UNCHANGED <<bids, asks, completed_orders, responses>>
    /\ UNCHANGED clientVars

\* handle_revise up to the end of the matching loop; an order_id that is not
\* valid is answered at once
WorkerRevise ==
    /\ last.n < MaxWorkerRequests
    /\ \E order_id \in 1..Len(orders), revised_quantity \in RevisedQuantities,
          revised_price \in RevisedPrices :
          LET x == ValidatedOrder(order_id)
          IN IF x = 0
             THEN /\ responses' = <<ErrorResp(last.n + 1, Trader)>>
                  /\ last' = [op |-> "revise", id |-> order_id, ok |-> FALSE,
                              raised |-> FALSE, n |-> last.n + 1]
                  /\ matches' = <<>>
                  /\ UNCHANGED <<orders, clock, inflight>>
             ELSE LET rv == OrderRevise(orders[x], revised_quantity,
                                        revised_price, clock)
                      os == [orders EXCEPT ![x] = rv.order]
                      clk == IF rv.status THEN clock + 1 ELSE clock
                      revise_resp == OrderResp(last.n + 1, Trader, x,
                                               rv.order, rv.status, FALSE)
                  IN \E m \in {Matched(os, x, clk)} :
                        /\ orders' = m.os
                        /\ clock' = m.clk
                        /\ matches' = m.matches
                        /\ inflight' = Append(inflight,
                                              [op |-> "revise",
                                               id |-> order_id, x |-> x,
                                               done |-> m.done,
                                               ok |-> rv.status,
                                               client_msg_id |-> last.n + 1,
                                               resps |-> <<revise_resp>>
                                                            \o m.resps])
                        /\ last' = [last EXCEPT !.n = @ + 1]
                        /\ UNCHANGED responses
    /\ UNCHANGED <<bids, asks, completed_orders, created>>
    /\ UNCHANGED clientVars

\* handle_cancel; cancel_order_request has no matching loop
WorkerCancel ==
    /\ last.n < MaxWorkerRequests
    /\ \E order_id \in 1..Len(orders) :
          CancelOrderRequest(last.n + 1, Trader, order_id)
    /\ UNCHANGED clientVars

\* _update_order_book of a request that has matched, and the return of the
\* request; the book is the one the worker finds when it resumes
WorkerUpdateBook(j) ==
    /\ LET t == inflight[j]
           bk == UpdateOrderBook(orders, Book, t.x, t.done)
       IN /\ bids' = bk.bids
          /\ asks' = bk.asks
          /\ completed_orders' = bk.completed
          /\ responses' = IF ~bk.raised THEN Emitted(t.resps, orders)
                          ELSE IF t.op = "create" THEN <<>>
                          ELSE <<ErrorResp(t.client_msg_id, Trader)>>
          /\ last' = [op |-> t.op, id |-> t.id, ok |-> t.ok /\ ~bk.raised,
                      raised |-> bk.raised, n |-> last.n]
    /\ inflight' = RemoveAt(inflight, j)
    /\ UNCHANGED <<orders, clock, matches, created>>
    /\ UNCHANGED clientVars

NextWorkers ==
    \/ WorkerCreate
    \/ WorkerRevise
    \/ WorkerCancel
    \/ \E j \in 1..Len(inflight) : WorkerUpdateBook(j)

SpecWorkers == Init /\ [][NextWorkers]_vars

\* ------------------------------------------------------------ matching workers
\* The matching loop of a worker, iteration by iteration.  An iteration is
\* two steps: the loop head up to trade_price (the quote is the one at the
\* iterator's index in the side as it is then), and the two fills with what
\* follows them.  The entry of `inflight` also holds pc, the index i, the
\* quote q, fill_qty, trade_price, trade_id and, as history, whether a fill
\* of the request has failed.

\* handle_create up to the beginning of the matching loop
MatchingCreate ==
    /\ last.n < MaxMatchingRequests
    /\ \E side \in Sides, quantity \in Quantities, limit_price \in Prices :
          LET x == Len(orders) + 1
              os == Append(orders, NewOrder(side, quantity, limit_price,
                                            Trader, clock))
              ack == OrderResp(last.n + 1, Trader, x, os[x], TRUE, TRUE)
          IN /\ created' = Append(created, quantity)
             /\ orders' = os
             /\ inflight' = Append(inflight,
                                   [op |-> "create", id |-> x, x |-> x,
                                    done |-> <<>>, ok |-> TRUE,
                                    client_msg_id |-> last.n + 1,
                                    resps |-> <<ack>>, pc |-> "read",
                                    i |-> 1, q |-> 0, fill_qty |-> 0,
                                    trade_price |-> 0, trade_id |-> 0,
                                    failed |-> FALSE])
    /\ clock' = clock + 1
    /\ last' = [last EXCEPT !.n = @ + 1]
    /\ UNCHANGED <<bids, asks, completed_orders, responses, matches>>
    /\ UNCHANGED clientVars

\* the head of an iteration of the loop of _evaluate_order_match: the next
\* quote, the two breaks, price_matched, fill_qty, trade_id and trade_price;
\* tick is what the clock has advanced by when time.time() is read next
MatchingReadTick(j, tick) ==
    /\ inflight[j].pc = "read"
    /\ LET t == inflight[j]
           order == orders[t.x]
           cross == CrossQuoteList(Book, order)
       IN IF \/ t.i > Len(cross)
             \/ order.status = "filled"
             \/ ~PriceMatched(order, orders[cross[t.i]])
          THEN /\ inflight' = [inflight EXCEPT ![j].pc = "update"]
               /\ UNCHANGED clock
          ELSE LET quote == orders[cross[t.i]]
               IN /\ inflight' = [inflight EXCEPT
                                     ![j].pc = "fill",
                                     ![j].q = cross[t.i],
                                     ![j].fill_qty = FillQty(order, quote),
                                     ![j].trade_price = TradePrice(order, quote),
                                     ![j].trade_id = clock]
                  /\ clock' = clock + tick
    /\ UNCHANGED <<orders, bids, asks, completed_orders, responses, matches,
                   created, last>>
    /\ UNCHANGED clientVars

\* the head of an iteration under a clock that every read finds advanced
MatchingRead(j) == MatchingReadTick(j, 1)

\* the try block of an iteration: order.fill, quote.fill, the ValueError of
\* either caught, and the quote noted when it is Filled
MatchingFill(j) ==
    /\ inflight[j].pc = "fill"
    /\ LET t == inflight[j]
           f1 == OrderFill(orders[t.x], t.x, t.fill_qty, t.trade_price,
                           t.trade_id)
           f2 == OrderFill(orders[t.q], t.q, t.fill_qty, t.trade_price,
                           t.trade_id)
           os1 == IF f1.ok THEN [orders EXCEPT ![t.x] = f1.order] ELSE orders
           os2 == IF f1.ok /\ f2.ok THEN [os1 EXCEPT ![t.q] = f2.order]
                  ELSE os1
           r1 == IF f1.ok
                 THEN Append(t.resps, FillResp(t.x, f1.order, f1.trade, TRUE))
                 ELSE t.resps
           r2 == IF f1.ok /\ f2.ok
                 THEN Append(r1, FillResp(t.q, f2.order, f2.trade, FALSE))
                 ELSE r1
       IN /\ orders' = os2
          /\ inflight' = [inflight EXCEPT
                             ![j].pc = "read",
                             ![j].i = @ + 1,
                             ![j].resps = r2,
                             ![j].done = IF os2[t.q].status = "filled"
                                         THEN Append(@, t.q) ELSE @,
                             ![j].failed = @ \/ ~f1.ok \/ ~f2.ok]
    /\ UNCHANGED <<bids, asks, completed_orders, clock, responses, matches,
                   created, last>>
    /\ UNCHANGED clientVars

\* _update_order_book of a request whose loop has ended, and its return
MatchingUpdateBook(j) ==
    /\ inflight[j].pc = "update"
    /\ WorkerUpdateBook(j)

NextMatching ==
    \/ MatchingCreate
    \/ \E j \in 1..Len(inflight) : MatchingRead(j)
    \/ \E j \in 1..Len(inflight) : MatchingFill(j)
    \/ \E j \in 1..Len(inflight) : MatchingUpdateBook(j)

SpecMatching == Init /\ [][NextMatching]_vars

\* the head of an iteration under a clock that may return the same value on
\* consecutive reads
ClockRead(j) == \E tick \in {0, 1} : MatchingReadTick(j, tick)

NextClock ==
    \/ MatchingCreate
    \/ \E j \in 1..Len(inflight) : ClockRead(j)
    \/ \E j \in 1..Len(inflight) : MatchingFill(j)
    \/ \E j \in 1..Len(inflight) : MatchingUpdateBook(j)

SpecClock == Init /\ [][NextClock]_vars

\* ------------------------------------------------------------ client and engine
\* a send_response that emits every response to the room of the request
SendResponsesToRequester(type, resps, request_client_id) ==
    [i \in 1..Len(resps) |->
        [event |-> IF type = "create"
                   THEN (IF i = 1 THEN "create_resp" ELSE "fill_resp")
                   ELSE IF type = "revise" THEN "revise_resp"
                   ELSE "cancel_resp",
         to |-> request_client_id,
         data |-> resps[i]]]

\* send_response: a response is emitted only when its client_id is the
\* client_id of the request, to the room of that name; create_resp carries
\* the acknowledgement of a create, fill_resp its fills, and every response
\* of a revise or cancel travels under revise_resp or cancel_resp
SendResponses(type, resps, request_client_id) ==
    LET mine == SelectSeq(resps, LAMBDA r : r.client_id = request_client_id)
    IN [i \in 1..Len(mine) |->
          [event |-> IF type = "create"
                     THEN (IF i = 1 THEN "create_resp" ELSE "fill_resp")
                     ELSE IF type = "revise" THEN "revise_resp"
                     ELSE "cancel_resp",
           to |-> mine[i].client_id,
           data |-> mine[i]]]

\* get_room_id / join_room: the socket of a client is in the room named by
\* the client_id of its requests, and receives what is emitted to that room
Room(client_id, emitted) ==
    SelectSeq(emitted, LAMBDA m : m.to = client_id)

\* what a user command or a callback leaves behind: the manager's records and
\* the requests emitted to the exchange
ClientDoes(r) ==
    /\ parents' = r.parents
    /\ toExch' = toExch \o r.out
    /\ sent' = sent + Len(r.out)
    /\ deltas' = deltas + (IF "delta" \in DOMAIN r THEN r.delta ELSE 0)

\* trading_app.create_iceberg (one parent order is followed)
CreateIceberg ==
    /\ parents = <<>>
    /\ \E q \in IcebergQuantities, z \in SliceSizes, l \in IcebergPrices :
          /\ z <= q
          /\ ClientDoes(CreateIcebergOrder(IcebergSide, q, l, z))
    /\ UNCHANGED <<toClient, commands, running>>
    /\ UNCHANGED engineVars

\* trading_app.revise
UserRevise ==
    /\ commands < MaxCommands
    /\ \E p \in 1..Len(parents), q \in IcebergRevisedQuantities,
          l \in Prices :
          ClientDoes(ManagerRevise(p, q, l))
    /\ commands' = commands + 1
    /\ UNCHANGED <<toClient, running>>
    /\ UNCHANGED engineVars

\* trading_app.cancel
UserCancel ==
    /\ commands < MaxCommands
    /\ \E p \in 1..Len(parents) : ClientDoes(ManagerCancel(p))
    /\ commands' = commands + 1
    /\ UNCHANGED <<toClient, running>>
    /\ UNCHANGED engineVars

\* ExchangeClient on_created
DeliverCreateResp ==
    /\ toClient # <<>>
    /\ Head(toClient).event = "create_resp"
    /\ ClientDoes(OnCreateResp(Head(toClient).data))
    /\ toClient' = Tail(toClient)
    /\ UNCHANGED <<commands, running>>
    /\ UNCHANGED engineVars

\* ExchangeClient on_filled
DeliverFillResp ==
    /\ toClient # <<>>
    /\ Head(toClient).event = "fill_resp"
    /\ ClientDoes(OnFillResp(Head(toClient).data))
    /\ toClient' = Tail(toClient)
    /\ UNCHANGED <<commands, running>>
    /\ UNCHANGED engineVars

\* ExchangeClient on_revised
DeliverReviseResp ==
    /\ toClient # <<>>
    /\ Head(toClient).event = "revise_resp"
    /\ ClientDoes(OnReviseResp(Head(toClient).data))
    /\ toClient' = Tail(toClient)
    /\ UNCHANGED <<commands, running>>
    /\ UNCHANGED engineVars

\* ExchangeClient on_cancelled
DeliverCancelResp ==
    /\ toClient # <<>>
    /\ Head(toClient).event = "cancel_resp"
    /\ ClientDoes(OnCancelResp(Head(toClient).data))
    /\ toClient' = Tail(toClient)
    /\ UNCHANGED <<commands, running>>
    /\ UNCHANGED engineVars

\* handle_create for a request of the iceberg client
HandleCreate ==
    /\ toExch # <<>>
    /\ Head(toExch).type = "create"
    /\ LET rq == Head(toExch)
       IN CreateOrderRequest(rq.side, rq.client_msg_id, Iceberg, rq.quantity,
                             rq.limit_price)
    /\ toExch' = Tail(toExch)
    /\ toClient' = toClient \o Room(Iceberg,
                              SendResponses("create", responses', Iceberg))
    /\ UNCHANGED <<parents, sent, commands, running, deltas>>

\* handle_revise for a request of the iceberg client
HandleRevise ==
    /\ toExch # <<>>
    /\ Head(toExch).type = "revise"
    /\ LET rq == Head(toExch)
       IN ReviseOrderRequest(rq.client_msg_id, Iceberg, rq.order_id,
                             rq.quantity, rq.limit_price)
    /\ toExch' = Tail(toExch)
    /\ toClient' = toClient \o Room(Iceberg,
                              SendResponses("revise", responses', Iceberg))
    /\ UNCHANGED <<parents, sent, commands, running, deltas>>

\* handle_cancel for a request of the iceberg client
HandleCancel ==
    /\ toExch # <<>>
    /\ Head(toExch).type = "cancel"
    /\ LET rq == Head(toExch)
       IN CancelOrderRequest(rq.client_msg_id, Iceberg, rq.order_id)
    /\ toExch' = Tail(toExch)
    /\ toClient' = toClient \o Room(Iceberg,
                              SendResponses("cancel", responses', Iceberg))
    /\ UNCHANGED <<parents, sent, commands, running, deltas>>

\* handle_create for another client's order; its responses go to that
\* client's room, and the fills of the iceberg client's resting orders are
\* not emitted
TraderCreate ==
    /\ Cardinality({id \in 1..Len(orders) : orders[id].client_id = Trader})
           < MaxEnvOrders
    /\ \E q \in TraderQuantities, p \in Prices :
          CreateOrderRequest(TraderSide, 0, Trader, q, p)
    /\ toClient' = toClient \o Room(Iceberg,
                              SendResponses("create", responses', Trader))
    /\ UNCHANGED <<parents, toExch, sent, commands, running, deltas>>

NextClient ==
    \/ CreateIceberg
    \/ UserRevise
    \/ UserCancel
    \/ DeliverCreateResp
    \/ DeliverFillResp
    \/ DeliverReviseResp
    \/ DeliverCancelResp
    \/ HandleCreate
    \/ HandleRevise
    \/ HandleCancel
    \/ TraderCreate

SpecClient == Init /\ [][NextClient]_vars

\* the engine handles the request at the head of its queue, or the socket
\* client runs the callback of the response at the head of its own
Progress ==
    \/ DeliverCreateResp
    \/ DeliverFillResp
    \/ DeliverCancelResp
    \/ HandleCreate
    \/ HandleCancel

\* the user of the client creates the parent and cancels it, and gives no
\* revise
NextCancel ==
    \/ CreateIceberg
    \/ UserCancel
    \/ Progress
    \/ TraderCreate

\* the steps of Progress, told by what they do to the two queues: the steps
\* that take the head of toExch are those of HandleCreate and HandleCancel,
\* the steps that take the head of toClient are the callbacks
Handled == toExch # <<>> /\ toExch' = Tail(toExch)

Delivered == toClient # <<>> /\ toClient' = Tail(toClient)

\* neither the server nor the socket client leaves a message waiting for ever
SpecCancel ==
    Init /\ [][NextCancel]_vars /\ WF_toExch(Handled) /\ WF_toClient(Delivered)

\* ------------------------------------------------------------ handler threads
\* The callbacks registered with the socket client run on threads of their
\* own and StrategyManager.lock is all that orders them.  A response in
\* toClient is a callback that has not begun; `running` holds the callbacks
\* that are inside on_create_resp or on_fill_resp, past the strategy call
\* they make without the lock (h is the handler).  A block under the lock is
\* one step.

\* IcebergOrder.slice_fill up to the read of self.filled_quantity in
\* `self.filled_quantity += new_filled_quantity`
SliceFillRead(s, filled_quantity) ==
    [s |-> [s EXCEPT !.slice_filled_quantity = filled_quantity],
     new |-> filled_quantity - s.slice_filled_quantity,
     tmp |-> s.filled_quantity]

\* IcebergOrder.slice_fill from the store of self.filled_quantity on
\* (t.tmp the value read, t.new the delta)
SliceFillStore(s, t, mid) ==
    [EvaluateAndSlice([s EXCEPT !.filled_quantity = t.tmp + t.new], mid)
        EXCEPT !.delta = t.new]

\* the response is handled by on_fill_resp
FillData(m) ==
    /\ m.data.name = "FillOrderResponse"
    /\ m.event = "create_resp"
          => GetIcebergOrderParent(m.data.exch_order_id,
                                   m.data.client_msg_id) # 0

\* on_fill_resp, unlocked part: lookup and slice_fill up to the read of
\* the strategy's filled_quantity
ThreadFill(i) ==
    /\ FillData(toClient[i])
    /\ LET d == toClient[i].data
           p == GetIcebergOrderParent(d.exch_order_id, 0)
       IN IF p = 0 THEN UNCHANGED <<parents, running>>
          ELSE IF ~d.status
          THEN /\ running' = Append(running, [pc |-> "record", p |-> p,
                                              new |-> 0, tmp |-> 0,
                                              delta |-> 0,
                                              h |-> "on_fill_resp"])
               /\ UNCHANGED parents
          ELSE LET r == SliceFillRead(parents[p].iceberg_order,
                                      d.filled_quantity)
               IN /\ parents' = [parents EXCEPT ![p].iceberg_order = r.s]
                  /\ running' = Append(running, [pc |-> "store", p |-> p,
                                                 new |-> r.new, tmp |-> r.tmp,
                                                 delta |-> 0,
                                                 h |-> "on_fill_resp"])
    /\ toClient' = RemoveAt(toClient, i)
    /\ UNCHANGED <<toExch, sent, commands, deltas>>
    /\ UNCHANGED engineVars

\* on_fill_resp, unlocked part: the rest of slice_fill
ThreadFillStore(j) ==
    /\ running[j].pc = "store"
    /\ LET t == running[j]
           r == SliceFillStore(parents[t.p].iceberg_order, t, sent + 1)
       IN /\ parents' = [parents EXCEPT ![t.p].iceberg_order = r.s]
          /\ toExch' = toExch \o r.out
          /\ sent' = sent + Len(r.out)
          /\ deltas' = deltas + r.delta
          /\ running' = [running EXCEPT ![j].pc = "record",
                                        ![j].delta = r.delta]
    /\ UNCHANGED <<toClient, commands>>
    /\ UNCHANGED engineVars

\* on_create_resp, unlocked part: lookup and slice_created
ThreadCreateAck(i) ==
    /\ toClient[i].event = "create_resp"
    /\ ~FillData(toClient[i])
    /\ LET d == toClient[i].data
           p == GetIcebergOrderParent(d.exch_order_id, d.client_msg_id)
       IN IF p = 0 \/ d.name # "OrderResponse"
          THEN UNCHANGED <<parents, running>>
          ELSE /\ parents' = [parents EXCEPT ![p].iceberg_order =
                                 SliceCreated(@, d.exch_order_id, d.status)]
               /\ running' = Append(running, [pc |-> "record", p |-> p,
                                              new |-> 0, tmp |-> 0,
                                              delta |-> 0,
                                              h |-> "on_create_resp"])
    /\ toClient' = RemoveAt(toClient, i)
    /\ UNCHANGED <<toExch, sent, commands, deltas>>
    /\ UNCHANGED engineVars

\* the block of on_fill_resp and of on_create_resp under the lock: the
\* parent record takes the delta and the strategy's parent_state
ThreadRecord(j) ==
    /\ running[j].pc = "record"
    /\ LET t == running[j]
       IN parents' = [parents EXCEPT
                        ![t.p].filled_quantity = @ + t.delta,
                        ![t.p].state = parents[t.p].iceberg_order.parent_state]
    /\ running' = RemoveAt(running, j)
    /\ UNCHANGED <<toExch, toClient, sent, commands, deltas>>
    /\ UNCHANGED engineVars

\* on_revise_resp for an OrderResponse: the whole body is under the lock
ThreadReviseAck(i) ==
    /\ toClient[i].event = "revise_resp"
    /\ ~FillData(toClient[i])
    /\ ClientDoes(OnReviseResp(toClient[i].data))
    /\ toClient' = RemoveAt(toClient, i)
    /\ UNCHANGED <<commands, running>>
    /\ UNCHANGED engineVars

\* on_cancel_resp
ThreadCancelAck(i) ==
    /\ toClient[i].event = "cancel_resp"
    /\ ClientDoes(OnCancelResp(toClient[i].data))
    /\ toClient' = RemoveAt(toClient, i)
    /\ UNCHANGED <<commands, running>>
    /\ UNCHANGED engineVars

\* trading_app.create_iceberg (one parent order is followed)
ThreadsCreateIceberg ==
    /\ parents = <<>>
    /\ \E q \in ThreadIcebergQuantities, z \in SliceSizes,
          l \in IcebergPrices :
          /\ z <= q
          /\ ClientDoes(CreateIcebergOrder(IcebergSide, q, l, z))
    /\ UNCHANGED <<toClient, commands, running>>
    /\ UNCHANGED engineVars

\* handle_create for another client's order
ThreadsTraderCreate ==
    /\ Cardinality({id \in 1..Len(orders) : orders[id].client_id = Trader})
           < MaxThreadEnvOrders
    /\ \E q \in TraderQuantities, p \in Prices :
          CreateOrderRequest(TraderSide, 0, Trader, q, p)
    /\ toClient' = toClient \o Room(Iceberg,
                              SendResponses("create", responses', Trader))
    /\ UNCHANGED <<parents, toExch, sent, commands, running, deltas>>

NextThreads ==
    \/ ThreadsCreateIceberg
    \/ UserRevise
    \/ UserCancel
    \/ \E i \in 1..Len(toClient) : ThreadFill(i)
    \/ \E j \in 1..Len(running) : ThreadFillStore(j)
    \/ \E i \in 1..Len(toClient) : ThreadCreateAck(i)
    \/ \E j \in 1..Len(running) : ThreadRecord(j)
    \/ \E i \in 1..Len(toClient) : ThreadReviseAck(i)
    \/ \E i \in 1..Len(toClient) : ThreadCancelAck(i)
    \/ HandleCreate
    \/ HandleRevise
    \/ HandleCancel
    \/ ThreadsTraderCreate

SpecThreads == Init /\ [][NextThreads]_vars

\* ------------------------------------------------------------ the manager lock
\* StrategyManager.lock is a threading.Lock: it is not reentrant, and a thread
\* that asks for it while any thread holds it, itself included, waits.  Here
\* every callback and every user command runs on a thread and `running`
\* holds the threads that have begun: h is the handler the thread was called
\* in, f the function it is executing (on_create_resp and on_revise_resp
\* hand a FillOrderResponse to on_fill_resp), d the message or the command,
\* p the parent it has looked up, delta what its slice_fill returned, holds
\* whether it holds the lock, and pc where it stands: begin (entry of f),
\* acquire (at `with self.lock`), locked (inside the with block), exit
\* (leaving the with block) and done (returned).

\* the handler registered for an event
HandlerOf(event) ==
    CASE event = "create_resp" -> "on_create_resp"
      [] event = "fill_resp" -> "on_fill_resp"
      [] event = "revise_resp" -> "on_revise_resp"
      [] event = "cancel_resp" -> "on_cancel_resp"

\* a with block that is left without releasing the lock
WithExitKeeps(t) == [t EXCEPT !.pc = "done"]

\* the end of `with self.lock`, reached by running off the block and by a
\* return inside it alike; every handler returns right after its block
WithExit(t) == [t EXCEPT !.pc = "done", !.holds = FALSE]

\* what thread t runs from its pc up to its next `with self.lock`, the end
\* of its with block or its return
LockSegment(t) ==
    LET d == t.d
        Goes(t1, ps, out, delta) ==
            [t |-> t1, parents |-> ps, out |-> out, delta |-> delta]
        Returns == Goes([t EXCEPT !.pc = "done"], parents, <<>>, 0)
        Leaves == Goes([t EXCEPT !.pc = "exit"], parents, <<>>, 0)
        Delegates == Goes([t EXCEPT !.f = "on_fill_resp"], parents, <<>>, 0)
        Asks(p) == Goes([t EXCEPT !.pc = "acquire", !.p = p], parents,
                        <<>>, 0)
        Records(ps, out) ==
            Goes([t EXCEPT !.pc = "exit"],
                 [ps EXCEPT ![t.p].state = ps[t.p].iceberg_order.parent_state],
                 out, 0)
    IN CASE t.pc = "begin" /\ t.f = "on_create_resp" ->
              LET p == GetIcebergOrderParent(d.exch_order_id, d.client_msg_id)
              IN IF p = 0 THEN Returns
                 ELSE IF d.name = "FillOrderResponse" THEN Delegates
                 ELSE Goes([t EXCEPT !.pc = "acquire", !.p = p],
                           [parents EXCEPT ![p].iceberg_order =
                               SliceCreated(@, d.exch_order_id, d.status)],
                           <<>>, 0)
         [] t.pc = "begin" /\ t.f = "on_fill_resp" ->
              LET p == GetIcebergOrderParent(d.exch_order_id, 0)
              IN IF p = 0 THEN Returns
                 ELSE LET r == SliceFill(parents[p].iceberg_order,
                                         d.filled_quantity, d.status, sent + 1)
                      IN Goes([t EXCEPT !.pc = "acquire", !.p = p,
                                        !.delta = r.delta],
                              [parents EXCEPT ![p].iceberg_order = r.s],
                              r.out, r.delta)
         [] t.pc = "begin" /\ t.f = "on_revise_resp" ->
              IF d.name = "FillOrderResponse" THEN Delegates ELSE Asks(0)
         [] t.pc = "begin" /\ t.f = "on_cancel_resp" ->
              IF d.exch_order_id = 0 THEN Returns
              ELSE LET p == GetIcebergOrderParent(d.exch_order_id,
                                                  d.client_msg_id)
                   IN IF p = 0 THEN Returns ELSE Asks(p)
         [] t.pc = "begin" /\ t.f \in {"revise", "cancel"} -> Asks(d.p)
         [] t.pc = "locked" /\ t.f = "on_create_resp" ->
              Records(parents, <<>>)
         [] t.pc = "locked" /\ t.f = "on_fill_resp" ->
              Records([parents EXCEPT ![t.p].filled_quantity = @ + t.delta],
                      <<>>)
         [] t.pc = "locked" /\ t.f = "on_revise_resp" ->
              IF ~d.status THEN Leaves
              ELSE LET p == GetIcebergOrderParent(d.exch_order_id,
                                                  d.client_msg_id)
                   IN IF p = 0 THEN Leaves
                      ELSE Goes([t EXCEPT !.pc = "exit"],
                                OnReviseResp(d).parents, OnReviseResp(d).out,
                                0)
         [] t.pc = "locked" /\ t.f = "on_cancel_resp" ->
              Records([parents EXCEPT ![t.p].iceberg_order =
                          Cancelled(@, d.status)], <<>>)
         [] t.pc = "locked" /\ t.f = "revise" ->
              Goes([t EXCEPT !.pc = "exit"],
                   ManagerRevise(d.p, d.q, d.l).parents,
                   ManagerRevise(d.p, d.q, d.l).out, 0)
         [] t.pc = "locked" /\ t.f = "cancel" ->
              Goes([t EXCEPT !.pc = "exit"], ManagerCancel(d.p).parents,
                   ManagerCancel(d.p).out, 0)
         [] t.pc = "exit" -> Goes(WithExit(t), parents, <<>>, 0)

\* a handler is called on a thread: a callback with a response of the
\* exchange, or revise or cancel with a command of the user, who gives the
\* next command when the last one has returned
LockCall ==
    /\ Len(running) < MaxLockThreads
    /\ \/ \E i \in 1..Len(toClient) :
             /\ running' = Append(running,
                               [h |-> HandlerOf(toClient[i].event),
                                f |-> HandlerOf(toClient[i].event),
                                pc |-> "begin", d |-> toClient[i].data,
                                p |-> 0, delta |-> 0, holds |-> FALSE])
             /\ toClient' = RemoveAt(toClient, i)
             /\ UNCHANGED commands
       \/ /\ commands < MaxLockCommands
          /\ \A j \in 1..Len(running) :
                running[j].h \notin {"revise", "cancel"}
          /\ \E p \in 1..Len(parents) :
                \E d \in {[p |-> p, h |-> "cancel"]}
                         \cup {[p |-> p, h |-> "revise", q |-> q, l |-> l] :
                                 q \in IcebergRevisedQuantities,
                                 l \in Prices} :
                   running' = Append(running,
                                     [h |-> d.h, f |-> d.h, pc |-> "begin",
                                      d |-> d, p |-> 0, delta |-> 0,
                                      holds |-> FALSE])
          /\ commands' = commands + 1
          /\ UNCHANGED toClient
    /\ UNCHANGED <<parents, toExch, sent, deltas>>
    /\ UNCHANGED engineVars

\* thread j goes on: it takes the lock when no thread holds it, or runs
\* its next segment; a thread that has returned is gone unless it holds
\* the lock
LockRun(j) ==
    /\ LET t == running[j]
           r == IF t.pc = "acquire"
                THEN [t |-> [t EXCEPT !.pc = "locked", !.holds = TRUE],
                      parents |-> parents, out |-> <<>>, delta |-> 0]
                ELSE LockSegment(t)
       IN /\ t.pc # "done"
          /\ t.pc = "acquire" => \A k \in 1..Len(running) : ~running[k].holds
          /\ running' = IF r.t.pc = "done" /\ ~r.t.holds
                        THEN RemoveAt(running, j)
                        ELSE [running EXCEPT ![j] = r.t]
          /\ parents' = r.parents
          /\ toExch' = toExch \o r.out
          /\ sent' = sent + Len(r.out)
          /\ deltas' = deltas + r.delta
    /\ UNCHANGED <<toClient, commands>>
    /\ UNCHANGED engineVars

NextLock ==
    \/ ThreadsCreateIceberg
    \/ LockCall
    \/ \E j \in 1..Len(running) : LockRun(j)
    \/ HandleCreate
    \/ HandleRevise
    \/ HandleCancel
    \/ ThreadsTraderCreate

\* the scheduler gives every thread that can go on its turn
SpecLock ==
    Init /\ [][NextLock]_vars /\ WF_vars(\E j \in 1..Len(running) : LockRun(j))

\* ============================================================ JSON messages
\* The message classes of order.py and their to_json / from_json.  A member
\* of an Enum has a name and a value; a JSON message is the dict that to_json
\* builds; the result of a from_json is ok with the value built, or not ok
\* when the Python call raises.

\* message.Side
Side ==
    {[enum |-> "Side", name |-> "Buy", value |-> "buy"],
     [enum |-> "Side", name |-> "Sell", value |-> "sell"]}

\* message.OrderStatus
OrderStatus ==
    {[enum |-> "OrderStatus", name |-> "Ack", value |-> "ack"],
     [enum |-> "OrderStatus", name |-> "PartiallyFilled",
      value |-> "partially_filled"],
     [enum |-> "OrderStatus", name |-> "Filled", value |-> "filled"],
     [enum |-> "OrderStatus", name |-> "Cancelled", value |-> "cancelled"]}

\* order.TradeFillType
TradeFillType ==
    {[enum |-> "TradeFillType", name |-> "CompleteFill",
      value |-> "Complete Fill"],
     [enum |-> "TradeFillType", name |-> "PartialFill",
      value |-> "Partial Fill"]}

NoMember == [enum |-> "none", name |-> "none", value |-> "none"]

\* Enum(value): the member with that value, else ValueError
EnumByValue(enum, value) ==
    IF \E m \in enum : m.value = value
    THEN [ok |-> TRUE, member |-> CHOOSE m \in enum : m.value = value]
    ELSE [ok |-> FALSE, member |-> NoMember]

\* Enum[name]: the member with that name, else KeyError
EnumByName(enum, name) ==
    IF \E m \in enum : m.name = name
    THEN [ok |-> TRUE, member |-> CHOOSE m \in enum : m.name = name]
    ELSE [ok |-> FALSE, member |-> NoMember]

\* Python's None
None == [none |-> TRUE]

DEFAULT_SYMBOL == "AUTTRAD Equity"

\* OrderParams.to_json
OrderParamsToJson(x) ==
    [limit_price |-> x.limit_price, quantity |-> x.quantity,
     side |-> x.side.value, symbol |-> x.symbol,
     filled_quantity |-> x.filled_quantity,
     exch_order_id |-> x.exch_order_id, status |-> x.status.value]

\* OrderParams.from_json
OrderParamsFromJson(json_msg) ==
    LET side == EnumByValue(Side, json_msg.side)
        status == EnumByValue(OrderStatus, json_msg.status)
    IN IF ~side.ok \/ ~status.ok THEN [ok |-> FALSE, value |-> None]
       ELSE [ok |-> TRUE,
             value |-> [limit_price |-> json_msg.limit_price,
                        quantity |-> json_msg.quantity,
                        side |-> side.member,
                        symbol |-> json_msg.symbol,
                        filled_quantity |-> json_msg.filled_quantity,
                        exch_order_id |-> json_msg.exch_order_id,
                        status |-> status.member]]

\* Trade.to_json
TradeToJson(x) ==
    [quantity |-> x.quantity, limit_price |-> x.limit_price,
     symbol |-> x.symbol, exch_order_id |-> x.exch_order_id,
     trade_id |-> x.trade_id, fill_type |-> x.fill_type.value,
     side |-> x.side.value]

\* Trade.from_json: fill_type is TradeFillType["fill_type"], the member of
\* that name, whatever the message holds
TradeFromJson(json_msg) ==
    LET fill_type == EnumByName(TradeFillType, "fill_type")
        side == EnumByValue(Side, json_msg.side)
    IN IF ~fill_type.ok \/ ~side.ok THEN [ok |-> FALSE, value |-> None]
       ELSE [ok |-> TRUE,
             value |-> [quantity |-> json_msg.quantity,
                        limit_price |-> json_msg.limit_price,
                        symbol |-> json_msg.symbol,
                        exch_order_id |-> json_msg.exch_order_id,
                        trade_id |-> json_msg.trade_id,
                        fill_type |-> fill_type.member,
                        side |-> side.member]]

\* OrderResponse.to_json
OrderResponseToJson(x) ==
    [name |-> x.name, client_msg_id |-> x.client_msg_id,
     client_id |-> x.client_id,
     order_params |-> IF x.order_params # None
                      THEN OrderParamsToJson(x.order_params) ELSE None,
     status |-> x.status, status_msg |-> x.status_msg]

\* OrderResponse.from_json
OrderResponseFromJson(json_msg) ==
    LET order_params == IF json_msg.order_params # None
                        THEN OrderParamsFromJson(json_msg.order_params)
                        ELSE [ok |-> TRUE, value |-> None]
    IN IF ~order_params.ok THEN [ok |-> FALSE, value |-> None]
       ELSE [ok |-> TRUE,
             value |-> [name |-> json_msg.name,
                        client_msg_id |-> json_msg.client_msg_id,
                        client_id |-> json_msg.client_id,
                        order_params |-> order_params.value,
                        status |-> json_msg.status,
                        status_msg |-> json_msg.status_msg]]

\* FillOrderResponse.to_json
FillOrderResponseToJson(x) ==
    [name |-> x.name,
     order_params |-> IF x.order_params # None
                      THEN OrderParamsToJson(x.order_params) ELSE None,
     client_id |-> x.client_id, trade |-> TradeToJson(x.trade),
     status |-> x.status, status_msg |-> x.status_msg]

\* FillOrderResponse.from_json: order_params of None is a TypeError; name
\* is the default of the class
FillOrderResponseFromJson(json_msg) ==
    LET order_params == IF json_msg.order_params # None
                        THEN OrderParamsFromJson(json_msg.order_params)
                        ELSE [ok |-> FALSE, value |-> None]
        trade == TradeFromJson(json_msg.trade)
    IN IF ~order_params.ok \/ ~trade.ok THEN [ok |-> FALSE, value |-> None]
       ELSE [ok |-> TRUE,
             value |-> [name |-> "FillOrderResponse",
                        order_params |-> order_params.value,
                        client_id |-> json_msg.client_id,
                        trade |-> trade.value,
                        status |-> json_msg.status,
                        status_msg |-> json_msg.status_msg]]

\* cls.to_json
ToJson(cls, x) ==
    CASE cls = "OrderParams" -> OrderParamsToJson(x)
      [] cls = "Trade" -> TradeToJson(x)
      [] cls = "OrderResponse" -> OrderResponseToJson(x)
      [] cls = "FillOrderResponse" -> FillOrderResponseToJson(x)

\* cls.from_json
FromJson(cls, json_msg) ==
    CASE cls = "OrderParams" -> OrderParamsFromJson(json_msg)
      [] cls = "Trade" -> TradeFromJson(json_msg)
      [] cls = "OrderResponse" -> OrderResponseFromJson(json_msg)
      [] cls = "FillOrderResponse" -> FillOrderResponseFromJson(json_msg)

\* the values of the four classes: orders of Quantities and Prices, ids and
\* trade ids out of the same small numbers, the status messages of order.py
OrderParamsValues ==
    [limit_price : Prices, quantity : Quantities, side : Side,
     symbol : {DEFAULT_SYMBOL}, exch_order_id : Quantities,
     status : OrderStatus, filled_quantity : {0} \cup Quantities]

TradeValues ==
    [quantity : Quantities, limit_price : Prices, symbol : {DEFAULT_SYMBOL},
     exch_order_id : Quantities, trade_id : Prices,
     fill_type : TradeFillType, side : Side]

\* the order_params of the responses: those of the first order
ResponseParams ==
    {x \in OrderParamsValues :
        x.exch_order_id = 1 /\ x.filled_quantity <= x.quantity}

OrderResponseValues ==
    [name : {"OrderResponse"}, client_msg_id : Quantities,
     client_id : {Trader}, order_params : ResponseParams \cup {None},
     status : BOOLEAN, status_msg : {"Successful order creation"}]

FillOrderResponseValues ==
    [name : {"FillOrderResponse"},
     order_params : {x \in ResponseParams : x.filled_quantity > 0}
                       \cup {None},
     client_id : {Trader},
     trade : {x \in TradeValues : x.exch_order_id = 1 /\ x.trade_id = 1},
     status : {TRUE}, status_msg : {"Order filled successfully"}]

ValuesOf(cls) ==
    CASE cls = "OrderParams" -> OrderParamsValues
      [] cls = "Trade" -> TradeValues
      [] cls = "OrderResponse" -> OrderResponseValues
      [] cls = "FillOrderResponse" -> FillOrderResponseValues

Classes == {"OrderParams", "Trade", "OrderResponse", "FillOrderResponse"}

\* a value x of one of the classes is held in `responses`; to_json puts its
\* message in `toClient`; from_json puts its result behind x in `responses`
InitJson ==
    /\ orders = <<>>
    /\ bids = <<>>
    /\ asks = <<>>
    /\ completed_orders = {}
    /\ clock = 1
    /\ \E cls \in Classes : \E x \in ValuesOf(cls) :
          responses = <<[cls |-> cls, ok |-> TRUE, value |-> x]>>
    /\ matches = <<>>
    /\ created = <<>>
    /\ last = [op |-> "json", id |-> 0, ok |-> TRUE, raised |-> FALSE, n |-> 0]
    /\ parents = <<>>
    /\ toExch = <<>>
    /\ toClient = <<>>
    /\ sent = 0
    /\ commands = 0
    /\ running = <<>>
    /\ deltas = 0
    /\ inflight = <<>>

JsonToJson ==
    /\ Len(responses) = 1
    /\ toClient = <<>>
    /\ toClient' = <<[cls |-> responses[1].cls,
                      json |-> ToJson(responses[1].cls, responses[1].value)]>>
    /\ UNCHANGED <<orders, bids, asks, completed_orders, clock, responses,
                   matches, created, last, parents, toExch, sent, commands,
                   running, deltas, inflight>>

JsonFromJson ==
    /\ Len(responses) = 1
    /\ Len(toClient) = 1
    /\ LET r == FromJson(toClient[1].cls, toClient[1].json)
       IN responses' = Append(responses, [cls |-> toClient[1].cls,
                                          ok |-> r.ok, value |-> r.value])
    /\ UNCHANGED <<orders, bids, asks, completed_orders, clock, toClient,
                   matches, created, last, parents, toExch, sent, commands,
                   running, deltas, inflight>>

NextJson == JsonToJson \/ JsonFromJson

SpecJson == InitJson /\ [][NextJson]_vars

\* ============================================================ engine properties
Live(o) == o.status \in {"ack", "partially_filled"}

Terminal(o) == o.status \in {"filled", "cancelled"}

Ids == 1..Len(orders)

OnLiveSide(id) == id \in Range(bids) \cup Range(asks)

\* every create so far carried a positive quantity (prices are positive)
AllPositive == \A id \in Ids : created[id] > 0

\* the last request returned to its handler (no exception escaped it)
Completed == ~last.raised

OwnSide(id) == IF orders[id].side = "buy" THEN bids ELSE asks

OtherSide(id) == IF orders[id].side = "buy" THEN asks ELSE bids

\* C1: after every completed request each order whose status is Ack or
\* PartiallyFilled occurs exactly once in the live collection of its own
\* side and never in the other, and no id is both on a live side and in
\* completed_orders.
C1_LiveExactlyOnce ==
    Completed =>
        /\ \A id \in Ids : Live(orders[id]) =>
               /\ Count(OwnSide(id), id) = 1
               /\ Count(OtherSide(id), id) = 0
        /\ (Range(bids) \cup Range(asks)) \cap completed_orders = {}

\* C2: after every completed request on orders of positive quantity and
\* price no live bid has a limit price >= the limit price of a live ask.
C2_NoRestingCross ==
    (Completed /\ AllPositive) =>
        \A b \in Range(bids), a \in Range(asks) :
            (Live(orders[b]) /\ Live(orders[a]))
                => ~(orders[b].limit_price >= orders[a].limit_price)

BidsSorted ==
    \A i, j \in 1..Len(bids) : i < j =>
        \/ orders[bids[i]].limit_price > orders[bids[j]].limit_price
        \/ /\ orders[bids[i]].limit_price = orders[bids[j]].limit_price
           /\ orders[bids[i]].timestamp <= orders[bids[j]].timestamp

AsksSorted ==
    \A i, j \in 1..Len(asks) : i < j =>
        \/ orders[asks[i]].limit_price < orders[asks[j]].limit_price
        \/ /\ orders[asks[i]].limit_price = orders[asks[j]].limit_price
           /\ orders[asks[i]].timestamp <= orders[asks[j]].timestamp

\* C3: after every completed request bids are ordered by descending price
\* and, within a price, ascending timestamp; asks by ascending price and,
\* within a price, ascending timestamp.
C3_SidesSorted == Completed => (BidsSorted /\ AsksSorted)

\* index of the first fill response for order id, 0 if there is none
FirstFill(resps, id) ==
    LET hits == {i \in 1..Len(resps) :
                    /\ resps[i].name = "FillOrderResponse"
                    /\ resps[i].exch_order_id = id}
    IN IF hits = {} THEN 0 ELSE CHOOSE i \in hits : \A j \in hits : i <= j

\* C4: after a successful revise of a live order A, a later incoming
\* opposite order that fills A has first filled every live order of A's
\* side that rests at A's price and was resting before the revise.
C4_ReviseLosesPriority ==
    [][(/\ last.op = "revise" /\ last.ok
        /\ last'.op = "create" /\ ~last'.raised
        /\ FirstFill(responses', last.id) > 0)
       => \A b \in Ids :
             (/\ b # last.id
              /\ b \in Range(OwnSide(last.id))
              /\ Live(orders[b])
              /\ orders[b].limit_price = orders[last.id].limit_price)
             => /\ FirstFill(responses', b) > 0
                /\ FirstFill(responses', b) < FirstFill(responses', last.id)]_vars

\* C5: after every completed request every order on a live side has
\* 0 <= filled_quantity < quantity and status Ack or PartiallyFilled, for
\* orders created with positive quantity.
C5_LiveOrdersOpen ==
    (Completed /\ AllPositive) =>
        \A id \in Range(bids) \cup Range(asks) :
            /\ 0 <= orders[id].filled_quantity
            /\ orders[id].filled_quantity < orders[id].quantity
            /\ Live(orders[id])

TerminalHeld ==
    \A id \in Ids : Terminal(orders[id]) =>
        (id \in completed_orders /\ ~OnLiveSide(id))

TerminalFrozen ==
    \A id \in Ids : Terminal(orders[id]) =>
        /\ orders'[id].status = orders[id].status
        /\ orders'[id].quantity = orders[id].quantity
        /\ orders'[id].filled_quantity = orders[id].filled_quantity
        /\ orders'[id].limit_price = orders[id].limit_price
        /\ orders'[id].trades = orders[id].trades

\* C6: once an order is Filled or Cancelled it is held in completed_orders,
\* is on neither live side, and no later request changes its status,
\* quantity, filled_quantity or limit_price or appends a trade to it.
C6_TerminalIsFinal ==
    /\ [](Completed => TerminalHeld)
    /\ [][TerminalFrozen]_vars

FilledWithinQuantity ==
    \A id \in Ids :
        /\ 0 <= orders[id].filled_quantity
        /\ orders[id].filled_quantity <= orders[id].quantity
        /\ (orders[id].filled_quantity = orders[id].quantity
               => orders[id].status = "filled")

FilledMonotone ==
    \A id \in Ids : orders'[id].filled_quantity >= orders[id].filled_quantity

Fills == SelectSeq(responses, LAMBDA r : r.name = "FillOrderResponse")

Min(a, b) == IF a <= b THEN a ELSE b

\* C8: the fill responses of one request come in consecutive pairs, the
\* aggressor's fill first and the resting order's fill second; the trades
\* of a pair have equal quantity, trade_id and limit_price and opposite
\* side, and the quantity is the minimum of the two open quantities before
\* the match.
C8_FillPairs ==
    Completed =>
        /\ Len(Fills) = 2 * Len(matches)
        /\ \A k \in 1..Len(matches) :
              LET a == Fills[2 * k - 1]
                  r == Fills[2 * k]
              IN /\ a.exch_order_id = last.id
                 /\ a.exch_order_id = matches[k].order
                 /\ r.exch_order_id = matches[k].quote
                 /\ r.exch_order_id # last.id
                 /\ a.trade.quantity = r.trade.quantity
                 /\ a.trade.trade_id = r.trade.trade_id
                 /\ a.trade.limit_price = r.trade.limit_price
                 /\ a.trade.side # r.trade.side
                 /\ a.trade.quantity =
                        Min(matches[k].order_open, matches[k].quote_open)

\* a request matched two resting orders, the second fill of it partial
C8_Witness ==
    /\ Completed
    /\ Len(matches) = 2
    /\ Len(Fills) = 4
    /\ Fills[1].trade.quantity > 0
    /\ Fills[4].trade.fill_type = "Partial Fill"

\* the last request answers with the response of the request itself (the
\* acknowledgement of a create, the revise response of a revise of a live
\* order) and then with its fills
AnswersWithFills ==
    /\ Completed
    /\ last.op \in {"create", "revise"}
    /\ responses # <<>>
    /\ responses[1].exch_order_id # 0

\* the response of the request itself comes first and is the only one
OwnResponseFirst ==
    /\ responses[1].name = "OrderResponse"
    /\ responses[1].exch_order_id = last.id
    /\ last.op = "create" => responses[1].status
    /\ \A i \in 2..Len(responses) : responses[i].name = "FillOrderResponse"

\* the fills follow in the order of the matching events, the fill of the
\* aggressor immediately followed by the fill of the resting order
FillsInMatchOrder ==
    /\ Len(responses) = 1 + 2 * Len(matches)
    /\ \A k \in 1..Len(matches) :
          /\ responses[2 * k].exch_order_id = matches[k].order
          /\ responses[2 * k].exch_order_id = last.id
          /\ responses[2 * k + 1].exch_order_id = matches[k].quote
          /\ responses[2 * k].trade.trade_id
                = responses[2 * k + 1].trade.trade_id

\* the resting orders are matched best first: no resting order is matched
\* after one that it precedes in price-time priority
BestRestingFirst ==
    \A k \in 1..Len(matches), n \in 1..Len(matches) :
        k < n => ~Lt(orders[matches[n].quote], orders[matches[k].quote])

\* C17: the responses of one engine request are produced and emitted in
\* order: the acknowledgement (status true) of a create, or the revise
\* response of a revise of a live order, comes first and only once; then
\* come the fill responses in cross-match order, best resting order first,
\* each fill of the aggressor immediately followed by the fill of the resting
\* order it matched
C17_ResponseOrder ==
    AnswersWithFills =>
        (OwnResponseFirst /\ FillsInMatchOrder /\ BestRestingFirst)

\* the last request was a revise or cancel that named order id
Rejects(id) ==
    /\ last'.n = last.n + 1
    /\ last'.op \in {"revise", "cancel"}
    /\ last'.id = id

\* C18: a revise or cancel request that names an unknown order_id, or one
\* that is already in completed_orders, returns exactly one OrderResponse
\* with status false and no order_params, and leaves bids, asks,
\* completed_orders and the fields of every order unchanged
C18_InvalidOrderRejected ==
    [][\A id \in RequestedIds :
          (Rejects(id) /\ (id \notin Ids \/ id \in completed_orders))
              => /\ Len(responses') = 1
                 /\ responses'[1].name = "OrderResponse"
                 /\ ~responses'[1].status
                 /\ responses'[1].exch_order_id = 0
                 /\ UNCHANGED <<orders, bids, asks, completed_orders>>]_vars

\* a revise of a completed order was turned down
C18_Witness ==
    /\ last.op = "revise"
    /\ last.id \in completed_orders
    /\ ~last.ok
    /\ ~last.raised
    /\ Len(responses) = 1
    /\ responses[1].exch_order_id = 0

\* C19: every trade produced by matching, whether a create or a revise
\* triggered it, carries the limit price the incoming (aggressor) order has
\* at the time of the match, on the fill response of the aggressor and on
\* the fill response of the resting order
C19_TradeAtAggressorPrice ==
    Completed =>
        /\ Len(Fills) = 2 * Len(matches)
        /\ \A k \in 1..Len(matches) :
              /\ Fills[2 * k - 1].trade.limit_price = matches[k].order_price
              /\ Fills[2 * k].trade.limit_price = matches[k].order_price
              /\ matches[k].order_price = orders[matches[k].order].limit_price

\* an order crossed a resting order of another price, and the resting
\* order's fill response carries the incoming order's price
C19_Witness ==
    /\ Completed
    /\ Len(matches) >= 1
    /\ Len(Fills) = 2 * Len(matches)
    /\ orders[matches[1].quote].limit_price # matches[1].order_price
    /\ Fills[2].exch_order_id = matches[1].quote
    /\ Fills[2].trade.limit_price = orders[last.id].limit_price

\* asks 10@101 (the earlier) and 5@102 were resting and a buy 12@102 was the
\* last request
WorkedExample ==
    /\ last.n = 3
    /\ created = <<10, 5, 12>>
    /\ orders[1].side = "sell" /\ orders[1].limit_price = 101
    /\ orders[2].side = "sell" /\ orders[2].limit_price = 102
    /\ orders[3].side = "buy" /\ orders[3].limit_price = 102

\* the fill response i: order id, trade quantity, trade price, fill type
IsFill(i, id, quantity, price, fill_type) ==
    /\ responses[i].name = "FillOrderResponse"
    /\ responses[i].exch_order_id = id
    /\ responses[i].trade.exch_order_id = id
    /\ responses[i].trade.quantity = quantity
    /\ responses[i].trade.limit_price = price
    /\ responses[i].trade.fill_type = fill_type

\* the acknowledgement comes first and four fills follow
AckAndFourFills ==
    /\ Len(responses) = 5
    /\ responses[1].name = "OrderResponse"
    /\ responses[1].status
    /\ responses[1].exch_order_id = 3

\* afterwards the only live order is the second ask, open quantity 3 at 102
OnlySecondAskLive ==
    /\ bids = <<>>
    /\ asks = <<2>>
    /\ {id \in Ids : Live(orders[id])} = {2}
    /\ open_quantity(orders[2]) = 3
    /\ orders[2].limit_price = 102

\* C20: with resting asks 10@101 (earlier) and 5@102 and an incoming buy 12@102,
\* create_order_request yields an acknowledgement followed by exactly four
\* fill responses in this order: buy quantity 10 at price 101 (Partial),
\* first ask quantity 10 at price 101 (Complete), buy quantity 2 at price 102
\* (Complete), second ask quantity 2 at price 102 (Partial); afterwards the
\* only live order is the second ask with open quantity 3 at 102
C20_WorkedExample ==
    WorkedExample =>
        /\ AckAndFourFills
        /\ IsFill(2, 3, 10, 101, "Partial Fill")
        /\ IsFill(3, 1, 10, 101, "Complete Fill")
        /\ IsFill(4, 3, 2, 102, "Complete Fill")
        /\ IsFill(5, 2, 2, 102, "Partial Fill")
        /\ OnlySecondAskLive

\* C20 as the code has it: the same responses and the same book, every trade
\* at the incoming order's price: buy quantity 10 at price 102 (Partial),
\* first ask quantity 10 at price 102 (Complete), buy quantity 2 at price 102
\* (Complete), second ask quantity 2 at price 102 (Partial)
C20_WorkedExampleAtAggressorPrice ==
    WorkedExample =>
        /\ AckAndFourFills
        /\ IsFill(2, 3, 10, 102, "Partial Fill")
        /\ IsFill(3, 1, 10, 102, "Complete Fill")
        /\ IsFill(4, 3, 2, 102, "Complete Fill")
        /\ IsFill(5, 2, 2, 102, "Partial Fill")
        /\ OnlySecondAskLive

\* the buy 12@102 has been matched against the two asks
C20_Witness ==
    /\ WorkedExample
    /\ Len(matches) = 2
    /\ orders[3].status = "filled"
    /\ orders[1].status = "filled"
    /\ orders[2].status = "partially_filled"

\* the live orders of a side at a price
LiveAt(side, price) ==
    {id \in Ids : /\ Live(orders[id])
                  /\ orders[id].side = side
                  /\ orders[id].limit_price = price}

\* the limit prices of the live orders of a side
LivePrices(side) ==
    {orders[id].limit_price : id \in {i \in Ids : /\ Live(orders[i])
                                                  /\ orders[i].side = side}}

\* the sum of the open quantities of the orders S
RECURSIVE OpenQuantity(_)
OpenQuantity(S) ==
    IF S = {} THEN 0
    ELSE LET id == CHOOSE i \in S : TRUE
         IN open_quantity(orders[id]) + OpenQuantity(S \ {id})

\* d holds one row per live price of the side, best price first (first
\* means larger for bids, smaller for asks), each with the open quantity of
\* the live orders at its price
DepthOfSide(d, side) ==
    /\ Len(d) = Cardinality(LivePrices(side))
    /\ \A i \in 1..Len(d) :
          /\ d[i].price \in LivePrices(side)
          /\ d[i].volume = OpenQuantity(LiveAt(side, d[i].price))
    /\ \A i, j \in 1..Len(d) :
          i < j => IF side = "buy" THEN d[i].price > d[j].price
                   ELSE d[i].price < d[j].price

\* the rows of get_market_depth pair the rows of the two sides by rank, and
\* a side without a row at a rank contributes empty strings
PairedByRank(b, a) ==
    /\ Len(GetMarketDepth) = (IF Len(b) >= Len(a) THEN Len(b) ELSE Len(a))
    /\ \A i \in 1..Len(GetMarketDepth) :
          /\ GetMarketDepth[i].bid
                = (IF i <= Len(b) THEN <<b[i].price, b[i].volume>> ELSE <<>>)
          /\ GetMarketDepth[i].ask
                = (IF i <= Len(a) THEN <<a[i].price, a[i].volume>> ELSE <<>>)

\* C26: get_market_depth returns, for each side, exactly one row per distinct
\* limit price among the live orders of that side, ordered best-first (bids
\* by descending price, asks by ascending price), whose volume equals the sum
\* of the open quantities of all live orders at that price; bid and ask rows
\* are paired by rank, and a side that has no row at a rank contributes empty
\* strings
C26_MarketDepth ==
    Completed =>
        \E b \in {BuildMarketDepth(bids, <<>>)},
           a \in {BuildMarketDepth(asks, <<>>)} :
            /\ DepthOfSide(b, "buy")
            /\ DepthOfSide(a, "sell")
            /\ PairedByRank(b, a)

\* ============================================================ client properties
\* the slices of the parent that are live at the exchange
LiveSlices == {id \in Ids : orders[id].client_id = Iceberg
                            /\ Live(orders[id])}

\* the create requests of the parent that the exchange has not handled yet
SlicesInFlight == {i \in 1..Len(toExch) : toExch[i].type = "create"}

\* C9: at every point the parent has at most one slice that is in flight or
\* live at the exchange: no create request for a new slice is out while an
\* earlier slice still has status Ack or PartiallyFilled at the exchange
C9_OneSlice ==
    Cardinality(LiveSlices) + Cardinality(SlicesInFlight) <= 1

\* C10: for every parent at every point, the strategy's filled_quantity is at
\* most its total_quantity, whatever total_quantity and slice_size are
C10_FilledWithinTotal ==
    \A p \in 1..Len(parents) :
        parents[p].iceberg_order.filled_quantity
            <= parents[p].iceberg_order.total_quantity

\* the strategy of parent p
Strategy(p) == parents[p].iceberg_order

\* the step is the callback of the acknowledgement toClient[i] of a revise
\* (event revise_resp) or of a cancel (event cancel_resp)
AckDelivered(i, event) ==
    /\ toClient[i].event = event
    /\ toClient[i].data.name = "OrderResponse"
    /\ toClient' = RemoveAt(toClient, i)

\* C11: once the parent_state of a parent is Filled, Cancelled or Rejected,
\* no later command (revise, cancel) and no later callback (create ack, fill,
\* revise ack, cancel ack) changes it
C11_TerminalSticky ==
    [][\A p \in 1..Len(parents) :
          Strategy(p).parent_state \in COMPLETED_STATES
              => Strategy(p)'.parent_state = Strategy(p).parent_state]_vars

\* no revise or cancel was issued, every slice released so far has been
\* acknowledged and completely filled, the strategy has been told so, and no
\* request or response is under way
SlicesDone ==
    /\ Len(parents) = 1
    /\ Strategy(1).last_slice_state = "Filled"
    /\ commands = 0
    /\ toExch = <<>>
    /\ toClient = <<>>
    /\ running = <<>>
    /\ \A id \in Ids : orders[id].client_id = Iceberg
                          => orders[id].status = "filled"

\* C13: if no revise or cancel is issued and every released slice is
\* acknowledged and completely filled, the parent reaches parent_state Filled
\* with filled_quantity = total_quantity: when the slices released are all
\* filled and nothing is under way (no later step can change the parent), the
\* parent is Filled with filled_quantity = total_quantity
C13_FilledWhenSlicesFilled ==
    SlicesDone => /\ Strategy(1).parent_state = "Filled"
                  /\ Strategy(1).filled_quantity = Strategy(1).total_quantity

\* the step is StrategyManager.revise(p, q, l)
ReviseCalled(p, q, l) ==
    /\ commands' = commands + 1
    /\ parents' = ManagerRevise(p, q, l).parents
    /\ toExch' = toExch \o ManagerRevise(p, q, l).out

\* the parent is not in Pending, Working or PartiallyFilled, or no
\* slice_order_id is recorded, or q is at most what the parent has filled
NotRevisable(p, q) ==
    \/ Strategy(p).parent_state \notin {"Pending", "Working", "PartiallyFilled"}
    \/ Strategy(p).slice_order_id = 0
    \/ q <= Strategy(p).filled_quantity

\* C22: the strategy's revise(new_qty, new_price) sends no message to the
\* exchange and changes no strategy field (states, total_quantity,
\* limit_price, slice_size) whenever parent_state is not one of Pending,
\* Working, PartiallyFilled, or no slice_order_id is recorded, or new_qty is
\* at most the parent's filled_quantity
C22_ReviseRefused ==
    [][\A p \in 1..Len(parents), q \in IcebergRevisedQuantities, l \in Prices :
          (ReviseCalled(p, q, l) /\ NotRevisable(p, q))
              => /\ toExch' = toExch
                 /\ Strategy(p)' = Strategy(p)]_vars

\* a revise was called and refused: nothing but the first create request was
\* ever sent, and the quantity asked for, which the record keeps, is not the
\* strategy's total_quantity
C22_Witness ==
    /\ Len(parents) = 1
    /\ commands > 0
    /\ sent = 1
    /\ parents[1].quantity # Strategy(1).total_quantity

\* the step is StrategyManager.cancel(p)
CancelCalled(p) ==
    /\ commands' = commands + 1
    /\ parents' = ManagerCancel(p).parents
    /\ toExch' = toExch \o ManagerCancel(p).out

\* cancel of an acknowledged slice in Pending, Working or PartiallyFilled
\* sends one cancel request for the slice; both states and the record become
\* CancelSent
CancelSends ==
    \A p \in 1..Len(parents) :
        (/\ CancelCalled(p)
         /\ Strategy(p).slice_order_id # 0
         /\ Strategy(p).last_slice_state
                \in {"Pending", "Working", "PartiallyFilled"})
            => /\ toExch' = Append(toExch,
                                   CancelRequest(sent + 1,
                                                 Strategy(p).slice_order_id))
               /\ Strategy(p)'.last_slice_state = "CancelSent"
               /\ Strategy(p)'.parent_state = "CancelSent"
               /\ parents'[p].state = "CancelSent"

\* the answer of the exchange to the cancel: status true makes the parent and
\* its record Cancelled, status false returns the parent to Working
CancelAnswered ==
    \A i \in 1..Len(toClient), p \in 1..Len(parents) :
        AckDelivered(i, "cancel_resp")
            => IF toClient[i].data.status
               THEN /\ Strategy(p)'.parent_state = "Cancelled"
                    /\ parents'[p].state = "Cancelled"
               ELSE Strategy(p)'.parent_state = "Working"

\* C23: for a parent whose slice is acknowledged and whose last_slice_state is
\* Pending, Working or PartiallyFilled, cancel sends exactly one cancel
\* request for the slice and moves both states (and the manager record) to
\* CancelSent; when the exchange then answers the cancel with status=true the
\* parent and record become Cancelled, and when it answers with status=false
\* the parent returns to Working
C23_CancelThenAnswer == [][CancelSends /\ CancelAnswered]_vars

\* C25: after StrategyManager.revise(parent_id, q, p) returns, the manager
\* record's quantity and limit_price mirror the strategy: record.quantity =
\* strategy.total_quantity and record.limit_price = strategy.limit_price,
\* whether the strategy applied the revise in place, forwarded it to the
\* exchange, or rejected it
C25_RecordMirrorsRevise ==
    [][\A p \in 1..Len(parents), q \in IcebergRevisedQuantities, l \in Prices :
          ReviseCalled(p, q, l)
              => /\ parents'[p].quantity = Strategy(p)'.total_quantity
                 /\ parents'[p].limit_price = Strategy(p)'.limit_price]_vars

\* ============================================================ thread properties
\* the step sends a create request for a slice
ReleasesSlice ==
    \E i \in 1..Len(toExch') :
        toExch'[i].type = "create" /\ toExch'[i].client_msg_id > sent

\* the step is the initial submit of create_iceberg
InitialSubmit == Len(parents) = 0 /\ Len(parents') = 1

\* the step is the slice_fill of a fill callback that finds the current
\* slice Filled while the parent is short of its total quantity
FillCompletesSlice ==
    \E j \in 1..Len(running) :
        /\ running[j].pc = "store"
        /\ Len(running') = Len(running)
        /\ running'[j].pc = "record"
        /\ LET s == Strategy(running[j].p)
           IN /\ s.slice_filled_quantity = s.slice_size
              /\ Strategy(running[j].p)'.filled_quantity < s.total_quantity

\* the step is a revise ack (status true, awaited by the strategy) whose
\* quantity is what the slice has filled, the parent short of its total
ReviseAckCompletesSlice ==
    \E i \in 1..Len(toClient) :
        /\ toClient' = RemoveAt(toClient, i)
        /\ toClient[i].event = "revise_resp"
        /\ toClient[i].data.name = "OrderResponse"
        /\ toClient[i].data.status
        /\ \E p \in 1..Len(parents) :
              /\ p = GetIcebergOrderParent(toClient[i].data.exch_order_id,
                                           toClient[i].data.client_msg_id)
              /\ Strategy(p).last_slice_state = "ReviseSent"
              /\ Strategy(p).slice_filled_quantity = toClient[i].data.quantity
              /\ Strategy(p).filled_quantity < Strategy(p).total_quantity

\* C12: a create request for a slice is sent only by the initial submit of
\* create_iceberg or by a fill callback at which the current slice has just
\* reached Filled and the parent's filled_quantity is below total_quantity;
\* no revise, revise ack, cancel, cancel ack or create ack releases a slice
C12_SliceReleasedOnlyOnFill ==
    [][ReleasesSlice => (InitialSubmit \/ FillCompletesSlice)]_vars

\* C12 as the code has it: a slice is released by the initial submit or by
\* evaluate_and_slice, which a fill callback and an awaited revise ack of
\* status true both run, when it finds the slice Filled (its filled quantity
\* equal to its size) and the parent's filled_quantity below total_quantity
C12_SliceReleasedOnlyWhenFilled ==
    [][ReleasesSlice => (InitialSubmit \/ FillCompletesSlice
                            \/ ReviseAckCompletesSlice)]_vars

\* a second slice has been released after a revise was sent
C12_Witness ==
    /\ Len(parents) = 1
    /\ Strategy(1).slice_message_id > 2
    /\ Strategy(1).last_slice_state = "Sent"
    /\ \E i \in 1..Len(toExch) :
          /\ toExch[i].type = "create"
          /\ toExch[i].client_msg_id = Strategy(1).slice_message_id

\* C14: for every parent, after any sequence and any thread interleaving of
\* fill callbacks (no callback is inside its handler), the strategy's
\* filled_quantity, the manager record's filled_quantity and the sum of the
\* deltas returned by slice_fill are equal
C14_FilledQuantitiesAgree ==
    running = <<>> =>
        \A p \in 1..Len(parents) :
            /\ Strategy(p).filled_quantity = parents[p].filled_quantity
            /\ parents[p].filled_quantity = deltas

\* the step begins the body of a callback or runs a user command
HandlerBegins ==
    \/ Len(toClient') < Len(toClient)
    \/ commands' > commands

\* C15: every command and callback handler of the StrategyManager holds the
\* manager's mutex for its whole body, so that the strategy calls and record
\* updates of two handlers are never interleaved: while a handler is inside
\* its body (between its strategy call and its record update) no other
\* handler begins
C15_HandlersNotInterleaved ==
    [][running # <<>> => ~HandlerBegins]_vars

\* the acknowledgement toClient[i] is not awaited by the strategy of parent p
StaleAck(i, p) ==
    \/ /\ AckDelivered(i, "revise_resp")
       /\ Strategy(p).last_slice_state # "ReviseSent"
    \/ /\ AckDelivered(i, "cancel_resp")
       /\ Strategy(p).last_slice_state # "CancelSent"

\* C21: a revise ack delivered while last_slice_state is not ReviseSent, and
\* a cancel ack delivered while last_slice_state is not CancelSent, change
\* nothing in the strategy (states, slice_size, limit_price, total_quantity,
\* both filled quantities, the slice ids) and send no message to the exchange
C21_StaleAckDropped ==
    [][\A i \in 1..Len(toClient), p \in 1..Len(parents) :
          StaleAck(i, p) => /\ Strategy(p)' = Strategy(p)
                            /\ toExch' = toExch]_vars

\* the exchange has revised the price of the current slice, its
\* acknowledgement has been delivered, and the strategy, which had moved on
\* from ReviseSent, still holds the old price
C21_Witness ==
    /\ Len(parents) = 1
    /\ running = <<>>
    /\ \A i \in 1..Len(toExch) : toExch[i].type # "revise"
    /\ \A i \in 1..Len(toClient) : toClient[i].event # "revise_resp"
    /\ Strategy(1).slice_order_id \in Ids
    /\ Live(orders[Strategy(1).slice_order_id])
    /\ orders[Strategy(1).slice_order_id].limit_price
           # Strategy(1).limit_price

\* no handler is inside its body and every record's state is the
\* parent_state of its strategy
RecordMirrorsState ==
    running = <<>> =>
        \A p \in 1..Len(parents) : parents[p].state = Strategy(p).parent_state

\* the step completes the on_create_resp of thread j
CreateAckCompleted(j) ==
    /\ running[j].h = "on_create_resp"
    /\ running' = RemoveAt(running, j)

\* C24: after create_iceberg and after every completed manager handler
\* (on_create_resp, on_fill_resp, revise, on_revise_resp, cancel,
\* on_cancel_resp) the manager record's state equals the strategy's
\* parent_state; in particular it is Sent right after create_iceberg and
\* equals the strategy's last_slice_state (Working, or Rejected on
\* status=false) right after a create acknowledgement
C24_RecordMirrorsState ==
    [][/\ RecordMirrorsState'
       /\ InitialSubmit => parents'[1].state = "Sent"
       /\ \A j \in 1..Len(running) :
             CreateAckCompleted(j)
                 => /\ parents'[running[j].p].state
                          = parents'[running[j].p].iceberg_order.last_slice_state
                    /\ parents'[running[j].p].state
                          \in {"Working", "Rejected"}]_vars

\* ============================================================ worker properties
\* the step begins a request of the engine
RequestBegins == last'.n > last.n

\* C16: the create, revise and cancel requests of the engine are mutually
\* serialized, also when their handlers run on distinct transport workers: a
\* request that has run its matching loop performs its book update before
\* any step of another request reads or changes bids, asks or
\* completed_orders
C16_RequestsSerialized ==
    [][inflight # <<>> => ~RequestBegins]_vars

\* ============================================================ matching properties
\* the step is the try block of an iteration of request j
FillStep(j) ==
    /\ inflight[j].pc = "fill"
    /\ Len(inflight') = Len(inflight)
    /\ inflight'[j].pc = "read"

\* order.fill is called first; quote.fill is called when order.fill returned
FillCalled(j, id) ==
    \/ id = inflight[j].x
    \/ /\ id = inflight[j].q
       /\ inflight[j].fill_qty <= open_quantity(orders[inflight[j].x])

\* the fill responses the step has added to those of the request
FillsAdded(j) ==
    SubSeq(inflight'[j].resps, Len(inflight[j].resps) + 1,
           Len(inflight'[j].resps))

\* a fill that fails leaves its order as it was, adds no response for it,
\* and the loop goes on to its next iteration
InvalidFillSkipped(j, id) ==
    (/\ FillStep(j)
     /\ FillCalled(j, id)
     /\ inflight[j].fill_qty > open_quantity(orders[id]))
        => /\ orders'[id].filled_quantity = orders[id].filled_quantity
           /\ orders'[id].status = orders[id].status
           /\ orders'[id].trades = orders[id].trades
           /\ \A k \in 1..Len(FillsAdded(j)) :
                 FillsAdded(j)[k].exch_order_id # id
           /\ inflight'[j].i = inflight[j].i + 1
           /\ inflight'[j].failed

\* a request one of whose fills failed returns its responses
FailedRequestReturns(j) ==
    (/\ inflight[j].failed
     /\ inflight[j].pc = "update"
     /\ inflight' = RemoveAt(inflight, j))
        => /\ ~last'.raised
           /\ responses' = Emitted(inflight[j].resps, orders)

\* C27: Order.fill with a quantity greater than the order's open quantity
\* fails with an error and leaves the order's filled_quantity, status and
\* trade list unchanged; inside the OrderBook such a failure never aborts the
\* request: the response of the failed fill is skipped and the request still
\* returns
C27_InvalidFillSkipped ==
    [][\A j \in 1..Len(inflight) :
          /\ \A id \in Ids : InvalidFillSkipped(j, id)
          /\ FailedRequestReturns(j)]_vars

\* the Trade that a fill of order id in the step of request j appends
TradeOfStep(j, id, fill_type) ==
    [quantity |-> inflight[j].fill_qty,
     limit_price |-> inflight[j].trade_price,
     exch_order_id |-> id,
     trade_id |-> inflight[j].trade_id,
     fill_type |-> fill_type,
     side |-> orders[id].side]

\* C28: Order.fill with 0 < quantity <= open_quantity increases
\* filled_quantity by exactly that quantity, sets status to Filled if and only
\* if the open quantity becomes 0 and to PartiallyFilled otherwise, and
\* appends exactly one Trade with the given quantity, price and trade_id whose
\* fill_type is Complete Fill if and only if the new status is Filled
C28_ValidFill ==
    [][\A j \in 1..Len(inflight), id \in Ids :
          (/\ FillStep(j)
           /\ FillCalled(j, id)
           /\ 0 < inflight[j].fill_qty
           /\ inflight[j].fill_qty <= open_quantity(orders[id]))
              => /\ orders'[id].filled_quantity
                       = orders[id].filled_quantity + inflight[j].fill_qty
                 /\ orders'[id].status = "filled"
                       <=> open_quantity(orders'[id]) = 0
                 /\ orders'[id].status \in {"filled", "partially_filled"}
                 /\ orders'[id].trades
                       = Append(orders[id].trades,
                                TradeOfStep(j, id,
                                    IF orders'[id].status = "filled"
                                    THEN "Complete Fill"
                                    ELSE "Partial Fill"))]_vars

\* an order was filled in two fills, the first partial, the second complete
C28_Witness ==
    \E id \in Ids :
       /\ orders[id].status = "filled"
       /\ Len(orders[id].trades) = 2
       /\ orders[id].trades[1].fill_type = "Partial Fill"
       /\ orders[id].trades[2].fill_type = "Complete Fill"
       /\ orders[id].trades[1].quantity + orders[id].trades[2].quantity
             = orders[id].quantity
       /\ orders[id].filled_quantity = orders[id].quantity

\* ============================================================ cancel properties
\* the step is cancel_order_request of order_id, and the order was found
CancelFound(order_id) ==
    /\ ValidatedOrder(order_id) # 0
    /\ last'.op = "cancel"
    /\ last'.id = order_id
    /\ last'.n = last.n + 1

\* C29: Order.cancel on an order whose status is Filled returns status=false
\* and leaves the status Filled; on an order that is not Filled it sets status
\* to Cancelled and returns status=true, and through cancel_order_request the
\* cancelled order is removed from its live side and recorded in
\* completed_orders
C29_Cancel ==
    [][\A order_id \in RequestedIds :
          CancelFound(order_id)
              => IF orders[order_id].status = "filled"
                 THEN /\ ~responses'[1].status
                      /\ orders'[order_id].status = "filled"
                 ELSE /\ responses'[1].status
                      /\ orders'[order_id].status = "cancelled"
                      /\ order_id \notin Range(bids') \cup Range(asks')
                      /\ order_id \in completed_orders']_vars

\* ============================================================ JSON properties
\* C30: for every OrderParams, Trade, OrderResponse and FillOrderResponse
\* value x, from_json(to_json(x)) succeeds and equals x
C30_RoundTrip ==
    (last.op = "json" /\ Len(responses) = 2)
        => /\ responses[2].ok
           /\ responses[2].value = responses[1].value

\* ============================================================ routing properties
\* C31: a response is emitted only to the room of its own client_id: no
\* client ever receives a response (ack, revise, cancel or fill) whose
\* client_id differs from its own
C31_OwnResponsesOnly ==
    \A i \in 1..Len(toClient) : toClient[i].data.client_id = Iceberg

\* the iceberg client has taken another client's resting order and has the
\* acknowledgement and the fill of its own order in its room
C31_Witness ==
    /\ \E id \in Ids :
          /\ orders[id].client_id = Trader
          /\ orders[id].filled_quantity > 0
          /\ \E k \in 1..Len(responses) :
                /\ responses[k].name = "FillOrderResponse"
                /\ responses[k].exch_order_id = id
    /\ \E i \in 1..Len(toClient) : toClient[i].event = "fill_resp"
    /\ last.op = "create"

\* ============================================================ revise properties
\* the step is revise_order_request of order_id and its response has
\* status=false
ReviseRefused(order_id) ==
    /\ last'.op = "revise"
    /\ last'.id = order_id
    /\ last'.n = last.n + 1
    /\ ~responses'[1].status

\* C32: an engine revise request whose response has status=false leaves the
\* target order's quantity, limit_price, filled_quantity, status and
\* timestamp, and the contents and order of bids, asks and completed_orders,
\* unchanged; this includes a revise that carries both a quantity equal to
\* the filled quantity and a new price
C32_RefusedReviseChangesNothing ==
    [][\A order_id \in RequestedIds :
          ReviseRefused(order_id)
              => /\ order_id \in Ids
                       => /\ orders'[order_id].quantity
                                = orders[order_id].quantity
                          /\ orders'[order_id].limit_price
                                = orders[order_id].limit_price
                          /\ orders'[order_id].filled_quantity
                                = orders[order_id].filled_quantity
                          /\ orders'[order_id].status
                                = orders[order_id].status
                          /\ orders'[order_id].timestamp
                                = orders[order_id].timestamp
                 /\ bids' = bids
                 /\ asks' = asks
                 /\ completed_orders' = completed_orders]_vars

\* ============================================================ cancel of a parent
\* the exchange has accepted the cancel of a slice and its answer is on its
\* way to the client
CancelAccepted ==
    \E i \in 1..Len(toClient) :
       /\ toClient[i].event = "cancel_resp"
       /\ toClient[i].data.status

\* the parent is not in a terminal state, its slice is cancelled at the
\* exchange, and no slice is live or in flight
Stranded ==
    /\ Len(parents) = 1
    /\ Strategy(1).parent_state \notin COMPLETED_STATES
    /\ Strategy(1).slice_order_id \in Ids
    /\ orders[Strategy(1).slice_order_id].status = "cancelled"
    /\ LiveSlices = {}
    /\ toExch = <<>>
    /\ toClient = <<>>

\* C33: if the exchange accepts a cancel of a parent's slice (cancel response
\* status=true), the parent eventually reaches Cancelled, also when a
\* partial-fill response for that slice is delivered between the sending of
\* the cancel and the arrival of the cancel ack; the parent is never left
\* non-terminal with no slice live or in flight at the exchange
C33_CancelledEventually ==
    /\ CancelAccepted ~> (Len(parents) = 1
                             /\ Strategy(1).parent_state = "Cancelled")
    /\ []~Stranded

\* ============================================================ revise of a parent
\* C34: whenever a parent is in ReviseSent and the exchange's response to
\* that revise (status=true or status=false) has been delivered to
\* on_revise_resp, the parent has left ReviseSent (to Working,
\* PartiallyFilled, Filled or Sent), so that later revise and cancel commands
\* on the parent are not blocked forever
C34_ReviseAnswerLeavesReviseSent ==
    [][\A i \in 1..Len(toClient) :
          (/\ AckDelivered(i, "revise_resp")
           /\ Len(parents) = 1
           /\ Strategy(1).parent_state = "ReviseSent")
              => parents'[1].iceberg_order.parent_state
                    \in {"Working", "PartiallyFilled", "Filled", "Sent"}]_vars

\* ============================================================ fill accounting
\* the orders the book holds: those on a live side and the completed ones
Held == Range(bids) \cup Range(asks) \cup completed_orders

\* the sum of filled_quantity over the orders of S
RECURSIVE FilledQuantity(_)
FilledQuantity(S) ==
    IF S = {} THEN 0
    ELSE LET id == CHOOSE x \in S : TRUE
         IN orders[id].filled_quantity + FilledQuantity(S \ {id})

\* the sum of the quantities of the trades
RECURSIVE TradedQuantity(_)
TradedQuantity(trades) ==
    IF trades = <<>> THEN 0
    ELSE Head(trades).quantity + TradedQuantity(Tail(trades))

\* C35: after any sequence of engine requests, the sum of filled_quantity
\* over all Buy orders (live and completed) equals the sum over all Sell
\* orders, and each order's filled_quantity equals the sum of the quantities
\* of the trades recorded on it
C35_FillsBalance ==
    /\ FilledQuantity({id \in Held : orders[id].side = "buy"})
          = FilledQuantity({id \in Held : orders[id].side = "sell"})
    /\ \A id \in Ids :
          orders[id].filled_quantity = TradedQuantity(orders[id].trades)

\* ============================================================ strategy revise
\* C36: a strategy revise(new_qty, new_price) with new_qty -
\* parent.filled_quantity = 0 on a parent in Pending, Working or
\* PartiallyFilled with an acknowledged slice sends a cancel request for the
\* current slice and sets both last_slice_state and parent_state to
\* CancelSent
C36_ReviseToFilledCancels ==
    [][\A p \in 1..Len(parents), q \in IcebergRevisedQuantities,
         l \in Prices :
          (/\ ReviseCalled(p, q, l)
           /\ q - Strategy(p).filled_quantity = 0
           /\ Strategy(p).parent_state \in ACTIVE_STATES
           /\ Strategy(p).slice_order_id # 0)
              => /\ toExch' = Append(toExch,
                                     CancelRequest(sent + 1,
                                                   Strategy(p).slice_order_id))
                 /\ parents'[p].iceberg_order.last_slice_state = "CancelSent"
                 /\ parents'[p].iceberg_order.parent_state = "CancelSent"]_vars

\* C37: a strategy revise(new_qty, new_price) that is accepted, with new_price
\* equal to the current limit_price and the live slice's open quantity not
\* greater than new_qty - filled_quantity, sets total_quantity = new_qty and
\* limit_price = new_price, sends nothing to the exchange, and leaves
\* last_slice_state, parent_state, slice_size and the fill counters as they
\* were
C37_ReviseInPlace ==
    [][\A p \in 1..Len(parents), q \in IcebergRevisedQuantities,
         l \in Prices :
          (/\ ReviseCalled(p, q, l)
           /\ Strategy(p).parent_state \in ACTIVE_STATES
           /\ Strategy(p).slice_order_id # 0
           /\ q > Strategy(p).filled_quantity
           /\ l = Strategy(p).limit_price
           /\ Strategy(p).slice_size - Strategy(p).slice_filled_quantity
                 <= q - Strategy(p).filled_quantity)
              => /\ toExch' = toExch
                 /\ parents'[p].iceberg_order
                       = [Strategy(p) EXCEPT !.total_quantity = q,
                                             !.limit_price = l]]_vars

\* after one command and with only the first slice ever sent, the parent
\* and its record both carry the revised total of 4 next to an acknowledged,
\* unfilled slice of 2 in Working: the state a revise from 3 to 4 at the
\* same price leaves
C37_Witness ==
    /\ Len(parents) = 1
    /\ commands = 1
    /\ sent = 1
    /\ toExch = <<>>
    /\ Strategy(1).slice_order_id # 0
    /\ Strategy(1).slice_size = 2
    /\ Strategy(1).slice_filled_quantity = 0
    /\ Strategy(1).filled_quantity = 0
    /\ Strategy(1).last_slice_state = "Working"
    /\ Strategy(1).parent_state = "Working"
    /\ Strategy(1).total_quantity = 4
    /\ parents[1].quantity = 4
    /\ parents[1].limit_price = Strategy(1).limit_price

\* ============================================================ the manager lock
\* C38: no handler of the StrategyManager blocks forever on the manager's
\* lock: no thread asks for the lock while it holds it (not the submit of a
\* next slice from inside a callback, not the hand-over from on_create_resp
\* or on_revise_resp to on_fill_resp), no thread returns holding the lock,
\* early returns included, and every handler that has begun returns
C38_NoHandlerBlocks ==
    /\ [](\A j \in 1..Len(running) :
            /\ running[j].pc = "acquire" => ~running[j].holds
            /\ running[j].pc = "done" => ~running[j].holds)
    /\ (running # <<>>) ~> (running = <<>>)

\* a thread that on_revise_resp handed to on_fill_resp, and whose slice_fill
\* has submitted the next slice, waits for the lock that another thread
\* holds
C38_Witness ==
    \E j, k \in 1..Len(running) :
        /\ running[j].holds
        /\ running[k].pc = "acquire"
        /\ running[k].h = "on_revise_resp"
        /\ running[k].f = "on_fill_resp"
        /\ Strategy(running[k].p).last_slice_state = "Sent"
        /\ sent > 2

\* ============================================================ trade ids
\* the trades recorded on the orders, each with the order it is recorded on
TradeRecords ==
    UNION {{<<id, n>> : n \in 1..Len(orders[id].trades)} :
              id \in 1..Len(orders)}

\* the trade ids generated so far: those recorded and those of the
\* iterations that have yet to fill
TradeIds ==
    {orders[r[1]].trades[r[2]].trade_id : r \in TradeRecords}
       \cup {inflight[j].trade_id : j \in {k \in 1..Len(inflight) :
                                              inflight[k].pc = "fill"}}

\* C39: under a clock that may return the same value on consecutive reads,
\* two distinct matching events, of one request or of two, never carry the
\* same trade_id (the trades that share a trade_id are the two sides of one
\* event: at most two, on different orders of opposite sides), and trade
\* ids are generated in non-decreasing order
C39_TradeIds ==
    /\ [](\A r, s \in TradeRecords :
            (/\ r # s
             /\ orders[r[1]].trades[r[2]].trade_id
                   = orders[s[1]].trades[s[2]].trade_id)
               => /\ r[1] # s[1]
                  /\ orders[r[1]].side # orders[s[1]].side
                  /\ \A u \in TradeRecords :
                        orders[u[1]].trades[u[2]].trade_id
                            = orders[r[1]].trades[r[2]].trade_id
                          => u \in {r, s})
    /\ [][\A j \in 1..Len(inflight) :
            (/\ inflight[j].pc = "read"
             /\ Len(inflight') = Len(inflight)
             /\ inflight'[j].pc = "fill")
               => \A i \in TradeIds : i <= inflight'[j].trade_id]_vars

\* ============================================================ fills and owners
\* C40: every fill response the engine produces for a request is emitted to
\* the client that owns the filled order, the owner of the resting order
\* included when the aggressor belongs to another client_id: each fill of
\* an order of the iceberg client that a request produces is put in the
\* iceberg client's room by the step that handles the request
C40_FillsReachOwner ==
    [][RequestBegins =>
          \A i \in 1..Len(responses') :
             (/\ responses'[i].name = "FillOrderResponse"
              /\ responses'[i].client_id = Iceberg)
                => \E k \in (Len(toClient) + 1)..Len(toClient') :
                      toClient'[k].data = responses'[i]]_vars

====
